---------------------------- MODULE Spec2Model ----------------------------
(***************************************************************************)
(* Hybrid retrieval engine of rsk-chattalk: the FAQ fuzzy matcher          *)
(* (faq-system.js) and the question pipeline with its embedding cache and  *)
(* vector search (rag.js).                                                 *)
(*                                                                         *)
(* Strings are sequences of one-character strings.  Scores are exact       *)
(* rationals <<numerator, denominator>> with a positive denominator: every *)
(* score the code computes is either a literal (1.0, 0.9, 0) or one        *)
(* correctly rounded division of two small integers, so the order and the  *)
(* equality of the doubles are those of the rationals.                     *)
(***************************************************************************)
EXTENDS Integers, Sequences, FiniteSets, TLC

VARIABLES
    \* scorer harness: the two arguments of calculateSimilarity and its result
    sQuestion, sFaqQuestion, sResult,
    \* matcher harness: the loaded FAQ configuration, the question, the result
    mFaq, mQuestion, mResult,
    \* search harness: the two mode flags, the index, the query vector, the result
    vFast, vUltra, vIndex, vQuery, vResult,
    \* cosine harness: the two arguments of cosineSimilarity and its result
    cA, cB, cResult,
    \* key harness: the hex digests of the corpus and of the question, and the
    \* two cache keys made of them
    kDocHash, kQueryHash, kResult,
    \* debug harness: the DEBUG_MODE flag, what ollamaModel.call does, and how
    \* the question ended (the search harness gives the index and the query)
    DEBUG_MODE, dProvider, dResult,
    \* the process: its mode flags (fixed by the environment), the FAQ system's
    \* configuration, the cache file, the in-memory cache, the corpus and index
    FAST_MODE, ULTRA_FAST, faq, cacheFile, embeddingCache, docTexts, index,
    \* where the process is, how often it has been started again, how many
    \* questions have been asked, and the question being processed by askQuestion
    phase, restarts, asked, pc, question, faqResponse, queryVec, topK, outcome, calls,
    \* what the run has seen of its files: the count loadPersistentCache returned,
    \* whether it loaded the file or caught an error, the result of the last
    \* write of the cache file, and the error the top-level catch reported
    cachedCount, loadOutcome, lastWrite, startupError,
    \* how the process is run (TEST_MODE, INTERACTIVE being its negation), whether
    \* docs/README.md can be read, where the caller of askQuestion is (the
    \* interactive loop or the test loop), the index i of the test loop, and
    \* the line the callback of rl.question got last
    TEST_MODE, readmeFile, caller, testIdx, typed

scoreVars == <<sQuestion, sFaqQuestion, sResult>>
matchVars == <<mFaq, mQuestion, mResult>>
searchVars == <<vFast, vUltra, vIndex, vQuery, vResult>>
cosineVars == <<cA, cB, cResult>>
keyVars == <<kDocHash, kQueryHash, kResult>>
debugVars == <<DEBUG_MODE, dProvider, dResult>>
ioVars == <<cachedCount, loadOutcome, lastWrite, startupError>>
runVars == <<TEST_MODE, readmeFile, caller, testIdx, typed>>
procVars == <<FAST_MODE, ULTRA_FAST, faq, cacheFile, embeddingCache, docTexts, index,
              phase, restarts, asked, ioVars, runVars>>
askVars == <<pc, question, faqResponse, queryVec, topK, outcome, calls>>
sessionVars == <<procVars, askVars>>
vars == <<scoreVars, matchVars, searchVars, cosineVars, keyVars, debugVars,
          sessionVars>>

(***************************************************************************)
(* Bounds                                                                  *)
(***************************************************************************)
\* longest string given to the scorer
MaxLen == 3

\* the characters strings are made of: two lower-case letters, an upper-case
\* letter whose lower case is one of them, and a white-space character
Chars == {"a", "b", "B", " "}

\* a result not yet computed
NotYet == [pending |-> TRUE]

(***************************************************************************)
(* Rationals                                                               *)
(***************************************************************************)
RLt(x, y) == x[1] * y[2] < y[1] * x[2]
RLe(x, y) == x[1] * y[2] <= y[1] * x[2]
REq(x, y) == x[1] * y[2] = y[1] * x[2]
RGt(x, y) == RLt(y, x)
RGe(x, y) == RLe(y, x)

Max(a, b) == IF a >= b THEN a ELSE b
Min(a, b) == IF a <= b THEN a ELSE b

(***************************************************************************)
(* String primitives of the JavaScript runtime                             *)
(***************************************************************************)
IsSpace(c) == c = " "

LowerChar(c) ==
    CASE c = "A" -> "a" [] c = "B" -> "b" [] c = "C" -> "c" [] c = "D" -> "d"
      [] c = "E" -> "e" [] c = "H" -> "h" [] c = "I" -> "i" [] c = "L" -> "l"
      [] c = "P" -> "p" [] c = "Q" -> "q" [] c = "T" -> "t" [] c = "U" -> "u"
      [] c = "X" -> "x"
      [] OTHER -> c

\* String.prototype.toLowerCase
toLowerCase(s) == [i \in 1..Len(s) |-> LowerChar(s[i])]

\* String.prototype.trim: strips the white space at both ends
RECURSIVE trimStart(_)
trimStart(s) ==
    IF s # <<>> /\ IsSpace(Head(s)) THEN trimStart(Tail(s)) ELSE s

RECURSIVE trimEnd(_)
trimEnd(s) ==
    IF s # <<>> /\ IsSpace(s[Len(s)]) THEN trimEnd(SubSeq(s, 1, Len(s) - 1)) ELSE s

trim(s) == trimEnd(trimStart(s))

\* String.prototype.includes: t occurs in s as a contiguous substring
includes(s, t) ==
    \E i \in 0..(Len(s) - Len(t)) : SubSeq(s, i + 1, i + Len(t)) = t

\* String.prototype.split(/\s+/): the pieces between maximal runs of white
\* space; a run at either end leaves an empty piece, "" gives <<"">>
RECURSIVE splitFrom(_, _, _, _)
splitFrom(s, i, acc, cur) ==
    IF i > Len(s) THEN Append(acc, cur)
    ELSE IF IsSpace(s[i])
         THEN IF i > 1 /\ IsSpace(s[i - 1])
              THEN splitFrom(s, i + 1, acc, cur)
              ELSE splitFrom(s, i + 1, Append(acc, cur), <<>>)
         ELSE splitFrom(s, i + 1, acc, Append(cur, s[i]))

splitWs(s) == splitFrom(s, 1, <<>>, <<>>)

(***************************************************************************)
(* FAQSystem.calculateSimilarity                                           *)
(***************************************************************************)
\* mutant: the arguments are lower-cased but not trimmed
normalizeNoTrim(s) == toLowerCase(s)

\* q1 / q2: the arguments lower-cased and trimmed
normalize(s) == trim(toLowerCase(s))

\* mutant: only the question is searched for the canonical string
containsMatchOneWay(q1, q2) == includes(q1, q2)

\* mutant: the canonical string is searched for the question only
containsMatchOtherWay(q1, q2) == includes(q2, q1)

\* "Contains match": one normalized string includes the other
containsMatch(q1, q2) == includes(q1, q2) \/ includes(q2, q1)

\* the test of the filter: the word and some word of words2 include one another
wordMatches(word, words2) ==
    \E j \in 1..Len(words2) : includes(words2[j], word) \/ includes(word, words2[j])

\* mutant: a word that occurs twice in the question is counted once
intersectionLengthDistinct(words1, words2) ==
    Cardinality({words1[i] : i \in {k \in 1..Len(words1) : wordMatches(words1[k], words2)}})

\* words1.filter(...).length
intersectionLength(words1, words2) ==
    Cardinality({i \in 1..Len(words1) : wordMatches(words1[i], words2)})

\* mutant: the denominator is the smaller of the two word counts
wordSimilarityMin(q1, q2) ==
    LET words1 == splitWs(q1)
        words2 == splitWs(q2)
    IN  <<intersectionLength(words1, words2), Min(Len(words1), Len(words2))>>

\* "Word-based similarity"
wordSimilarity(q1, q2) ==
    LET words1 == splitWs(q1)
        words2 == splitWs(q2)
    IN  <<intersectionLength(words1, words2), Max(Len(words1), Len(words2))>>

calculateSimilarity(qText, faqQuestion) ==
    LET q1 == normalize(qText)
        q2 == normalize(faqQuestion)
    IN  IF q1 = q2 THEN <<1, 1>>
        ELSE IF containsMatch(q1, q2) THEN <<9, 10>>
        ELSE wordSimilarity(q1, q2)

(***************************************************************************)
(* FAQSystem: the loaded configuration, findBestMatch, getInstantAnswer    *)
(*                                                                         *)
(* A JavaScript object is the sequence of its [key, value] entries in      *)
(* property order.  this.faq is [nested |-> the entries of this.faq.faq,   *)
(* top |-> the other top-level entries]; the top-level key "faq" itself is *)
(* an entry of allCategories too, and its value has no `questions`.        *)
(***************************************************************************)
\* JavaScript null and undefined
Null == [null |-> TRUE]
Undefined == [undefined |-> TRUE]

\* a category object; hasQuestions is the truthiness of category.questions;
\* answer and command are opaque texts [text |-> ...], executable is
\* [bool |-> ...], and each of them may be Undefined
Category(qs, answer, command, executable) ==
    [hasQuestions |-> TRUE, questions |-> qs, answer |-> answer,
     command |-> command, executable |-> executable]

\* an object without a `questions` property ({} or the this.faq.faq container)
NoQuestions == [hasQuestions |-> FALSE, questions |-> <<>>, answer |-> Undefined,
                command |-> Undefined, executable |-> Undefined]

\* loadFAQ's catch: this.faq = { faq: {}, general: {}, networks: {} }
FallbackFaq ==
    [nested |-> <<>>,
     top |-> <<[key |-> "general", value |-> NoQuestions],
               [key |-> "networks", value |-> NoQuestions]>>]

keyIndex(obj, k) ==
    IF \E i \in 1..Len(obj) : obj[i].key = k
    THEN CHOOSE i \in 1..Len(obj) : obj[i].key = k
    ELSE 0

\* one property assignment of an object spread: an existing key keeps its
\* position and takes the new value, a new key is appended
setProp(obj, e) ==
    IF keyIndex(obj, e.key) = 0 THEN Append(obj, e)
    ELSE [obj EXCEPT ![keyIndex(obj, e.key)] = e]

\* { ...target, ...src }
RECURSIVE spread(_, _)
spread(target, src) ==
    IF src = <<>> THEN target
    ELSE spread(setProp(target, Head(src)), Tail(src))

\* the top-level entries of this.faq, the "faq" container among them
topEntries(cfg) == <<[key |-> "faq", value |-> NoQuestions]>> \o cfg.top

\* const allCategories = { ...this.faq.faq, ...this.faq }
allCategories(cfg) == spread(spread(<<>>, cfg.nested), topEntries(cfg))

\* the (category, canonical question) pairs in the order the two loops visit them
RECURSIVE scanOrder(_)
scanOrder(cats) ==
    IF cats = <<>> THEN <<>>
    ELSE LET c == Head(cats)
             here == IF c.value.hasQuestions
                     THEN [i \in 1..Len(c.value.questions) |->
                              [categoryKey |-> c.key, category |-> c.value,
                               faqQuestion |-> c.value.questions[i]]]
                     ELSE <<>>
         IN  here \o scanOrder(Tail(cats))

\* Minimum similarity threshold, as a rational
threshold == <<4, 10>>

\* category.command || null, category.executable || false
orNull(v) == IF v = Undefined \/ v = [text |-> ""] THEN Null ELSE v
orFalse(v) == IF v = Undefined THEN FALSE ELSE v.bool

matchOf(p, score) ==
    [category |-> p.categoryKey, answer |-> p.category.answer,
     command |-> orNull(p.category.command),
     executable |-> orFalse(p.category.executable),
     score |-> score, matchedQuestion |-> p.faqQuestion]

\* mutant: the threshold test is dropped
replacesBestNoThreshold(score, bestScore) == RGt(score, bestScore)

\* mutant: the comparison with the best score so far is dropped
replacesBestNoCompare(score, bestScore) == RGe(score, threshold)

\* mutant: an equal score replaces the best so far
replacesBestOnTie(score, bestScore) == RGe(score, bestScore) /\ RGe(score, threshold)

\* if (score > bestScore && score >= threshold)
replacesBest(score, bestScore) == RGt(score, bestScore) /\ RGe(score, threshold)

\* the body of the two loops, from pair i on, with the current best
RECURSIVE scanFrom(_, _, _, _, _)
scanFrom(qText, pairs, i, bestMatch, bestScore) ==
    IF i > Len(pairs) THEN bestMatch
    ELSE LET score == calculateSimilarity(qText, pairs[i].faqQuestion)
         IN  IF replacesBest(score, bestScore)
             THEN scanFrom(qText, pairs, i + 1, matchOf(pairs[i], score), score)
             ELSE scanFrom(qText, pairs, i + 1, bestMatch, bestScore)

findBestMatch(cfg, qText) ==
    scanFrom(qText, scanOrder(allCategories(cfg)), 1, Null, <<0, 1>>)

getInstantAnswer(cfg, qText) ==
    LET match == findBestMatch(cfg, qText)
    IN  IF match = Null THEN Null
        ELSE [type |-> "faq", answer |-> match.answer, command |-> match.command,
              executable |-> match.executable, confidence |-> match.score,
              category |-> match.category, matchedQuestion |-> match.matchedQuestion]

(***************************************************************************)
(* rag.js: cosineSimilarity and the similarity search of askQuestion       *)
(*                                                                         *)
(* A vector is a sequence of integers whose squared norm, over every       *)
(* prefix, is a perfect square: Math.sqrt is then exact, and the score is  *)
(* the single division dot / (sqrt(aNorm) * sqrt(bNorm)).                  *)
(***************************************************************************)
\* sum of f[i] over i in 1..n
RECURSIVE sumTo(_, _)
sumTo(f, n) == IF n = 0 THEN 0 ELSE f[n] + sumTo(f, n - 1)

\* Math.sqrt of a perfect square
sqrt(n) == CHOOSE r \in 0..n : r * r = n

\* mutant: the division is made whatever the norms are; 0 / 0 is NaN
cosineSimilarityNoGuard(a, b) ==
    LET len == Min(Len(a), Len(b))
        dot == sumTo([i \in 1..len |-> a[i] * b[i]], len)
        aNorm == sumTo([i \in 1..len |-> a[i] * a[i]], len)
        bNorm == sumTo([i \in 1..len |-> b[i] * b[i]], len)
    IN  <<dot, sqrt(aNorm) * sqrt(bNorm)>>

cosineSimilarity(a, b) ==
    LET len == Min(Len(a), Len(b))
        dot == sumTo([i \in 1..len |-> a[i] * b[i]], len)
        aNorm == sumTo([i \in 1..len |-> a[i] * a[i]], len)
        bNorm == sumTo([i \in 1..len |-> b[i] * b[i]], len)
    IN  IF aNorm = 0 \/ bNorm = 0 THEN <<0, 1>>
        ELSE <<dot, sqrt(aNorm) * sqrt(bNorm)>>

\* mutant: x goes in front of the elements whose score equals its own
insertBeforeTies(sorted, x) ==
    LET n == Cardinality({i \in 1..Len(sorted) : RGt(sorted[i].score, x.score)})
    IN  SubSeq(sorted, 1, n) \o <<x>> \o SubSeq(sorted, n + 1, Len(sorted))

\* one step of a stable sort by descending score: x goes behind every element
\* whose score is at least its own
insertByScore(sorted, x) ==
    LET n == Cardinality({i \in 1..Len(sorted) : RGe(sorted[i].score, x.score)})
    IN  SubSeq(sorted, 1, n) \o <<x>> \o SubSeq(sorted, n + 1, Len(sorted))

\* scored.sort((a, b) => b.score - a.score): Array.prototype.sort is stable
RECURSIVE sortFrom(_, _, _)
sortFrom(s, i, sorted) ==
    IF i > Len(s) THEN sorted ELSE sortFrom(s, i + 1, insertByScore(sorted, s[i]))

sortByScore(s) == sortFrom(s, 1, <<>>)

\* { score, text, metadata } of an index record
scoredRecord(qVec, rec) ==
    [score |-> cosineSimilarity(qVec, rec.vector), text |-> rec.text,
     metadata |-> rec.metadata]

\* const targetCount = ULTRA_FAST ? 2 : 3
targetCount(ultra) == IF ultra THEN 2 ELSE 3

\* mutant: FAST_MODE is looked at before ULTRA_FAST
topKSizeFastFirst(fast, ultra) == IF fast THEN 3 ELSE IF ultra THEN 2 ELSE 5

\* ULTRA_FAST ? 2 : (FAST_MODE ? 3 : 5)
topKSize(fast, ultra) == IF ultra THEN 2 ELSE IF fast THEN 3 ELSE 5

\* mutant: a record whose score equals minScore replaces the last of the buffer
RECURSIVE boundedFromReplacesTies(_, _, _, _, _, _)
boundedFromReplacesTies(idx, qVec, target, i, scored, minScore) ==
    IF i > Len(idx) THEN scored
    ELSE LET r == scoredRecord(qVec, idx[i])
         IN  IF Len(scored) < target
             THEN LET pushed == Append(scored, r)
                  IN  IF Len(pushed) = target
                      THEN LET sorted == sortByScore(pushed)
                           IN  boundedFromReplacesTies(idx, qVec, target, i + 1, sorted,
                                                       sorted[Len(sorted)].score)
                      ELSE boundedFromReplacesTies(idx, qVec, target, i + 1, pushed,
                                                   minScore)
             ELSE IF RGe(r.score, minScore)
             THEN LET sorted == sortByScore([scored EXCEPT ![Len(scored)] = r])
                  IN  boundedFromReplacesTies(idx, qVec, target, i + 1, sorted,
                                              sorted[Len(sorted)].score)
             ELSE boundedFromReplacesTies(idx, qVec, target, i + 1, scored, minScore)

\* the "early termination" loop from record i on; minScore is read only once the
\* buffer is full, and has been set by then
RECURSIVE boundedFrom(_, _, _, _, _, _)
boundedFrom(idx, qVec, target, i, scored, minScore) ==
    IF i > Len(idx) THEN scored
    ELSE LET r == scoredRecord(qVec, idx[i])
         IN  IF Len(scored) < target
             THEN LET pushed == Append(scored, r)
                  IN  IF Len(pushed) = target
                      THEN LET sorted == sortByScore(pushed)
                           IN  boundedFrom(idx, qVec, target, i + 1, sorted,
                                           sorted[Len(sorted)].score)
                      ELSE boundedFrom(idx, qVec, target, i + 1, pushed, minScore)
             ELSE IF RGt(r.score, minScore)
             THEN LET sorted == sortByScore([scored EXCEPT ![Len(scored)] = r])
                  IN  boundedFrom(idx, qVec, target, i + 1, sorted,
                                  sorted[Len(sorted)].score)
             ELSE boundedFrom(idx, qVec, target, i + 1, scored, minScore)

boundedSearch(idx, qVec, ultra) ==
    boundedFrom(idx, qVec, targetCount(ultra), 1, <<>>, <<0, 1>>)

\* "Full search for accuracy"
exhaustiveSearch(idx, qVec) ==
    sortByScore([i \in 1..Len(idx) |-> scoredRecord(qVec, idx[i])])

\* mutant: nothing is cut off
sliceAll(s, n) == s

\* Array.prototype.slice(0, n)
slice0(s, n) == SubSeq(s, 1, Min(Len(s), n))

\* if (FAST_MODE || ULTRA_FAST) { bounded loop } else { full search }
searchStrategy(fast, ultra) == IF fast \/ ultra THEN "bounded" ELSE "exhaustive"

\* scored and topK of askQuestion
similaritySearch(fast, ultra, idx, qVec) ==
    LET scored == IF searchStrategy(fast, ultra) = "bounded"
                  THEN boundedSearch(idx, qVec, ultra)
                  ELSE exhaustiveSearch(idx, qVec)
    IN  slice0(scored, topKSize(fast, ultra))

(***************************************************************************)
(* rag.js: what else the two mode flags select                             *)
(***************************************************************************)
\* chunkSize and chunkOverlap of the splitter
chunkSize(fast, ultra) == IF ultra THEN 500 ELSE IF fast THEN 800 ELSE 1000
chunkOverlap(fast, ultra) == IF ultra THEN 50 ELSE IF fast THEN 80 ELSE 100

\* timeout of the Ollama model and of the embeddings, in milliseconds
modelTimeout(fast, ultra) == IF ultra THEN 10000 ELSE IF fast THEN 20000 ELSE 60000
embeddingsTimeout(fast, ultra) == IF ultra THEN 8000 ELSE IF fast THEN 15000 ELSE 30000

\* which of the three prompts is built: if (ULTRA_FAST) .. else if (FAST_MODE) ..
promptTemplate(fast, ultra) ==
    IF ultra THEN "ultra-short" ELSE IF fast THEN "simplified" ELSE "full"

(***************************************************************************)
(* rag.js: the embedding cache.  embeddingCache (a Map) and the parsed     *)
(* cache file are sequences of [key, value] entries in insertion order.    *)
(* A key is <<prefix, digest>>; md5 is treated as collision-free, so the   *)
(* digest of a content is the content.                                     *)
(***************************************************************************)
md5(content) == content

\* `embeddings_${contentHash}`, the hash being that of JSON.stringify(docTexts)
docCacheKey(texts) == <<"embeddings_", md5(texts)>>

\* `query_${queryHash}`
queryCacheKey(qText) == <<"query_", md5(qText)>>

\* the two prefixes of the template literals, as characters
docKeyPrefixAsQuery == <<"q", "u", "e", "r", "y", "_">>
docKeyPrefix == <<"e", "m", "b", "e", "d", "d", "i", "n", "g", "s", "_">>
queryKeyPrefix == <<"q", "u", "e", "r", "y", "_">>

\* `embeddings_${contentHash}` and `query_${queryHash}` as the strings they
\* are, for hex digests given as sequences of characters
docCacheKeyString(contentHash) == docKeyPrefix \o contentHash
queryCacheKeyString(queryHash) == queryKeyPrefix \o queryHash

\* embeddingCache.has / get
cacheHas(map, k) == keyIndex(map, k) # 0
cacheGet(map, k) == map[keyIndex(map, k)].value

\* mutant: the entries set before are dropped
cacheSetFresh(map, k, v) == <<[key |-> k, value |-> v]>>

\* embeddingCache.set
cacheSet(map, k, v) == setProp(map, [key |-> k, value |-> v])

\* what fs.writeFileSync does: it writes the whole file, fails before touching
\* it, or fails after truncating it
WriteResults == {"ok", "refused", "partial"}

\* mutant: only the entry set last is written
saveLastEntry(map, file, writeResult) ==
    CASE writeResult = "ok" -> [kind |-> "json", data |-> <<map[Len(map)]>>]
      [] writeResult = "refused" -> file
      [] OTHER -> [kind |-> "corrupt"]

\* savePersistentCache: the whole map is serialized; a failure is swallowed
savePersistentCache(map, file, writeResult) ==
    CASE writeResult = "ok" -> [kind |-> "json", data |-> map]
      [] writeResult = "refused" -> file
      [] OTHER -> [kind |-> "corrupt"]

\* what fs.readFileSync does to a file that exists: it returns the content or
\* it throws
ReadResults == {"ok", "fails"}

\* the three ways out of loadPersistentCache: no file, the entries set and
\* counted, an error
noCacheFile(map) == [cache |-> map, count |-> 0, outcome |-> "none", threw |-> FALSE]
loadedFrom(map, data) ==
    [cache |-> spread(map, data), count |-> Len(data), outcome |-> "loaded",
     threw |-> FALSE]
loadError(map, caught) ==
    [cache |-> map, count |-> 0, outcome |-> "failed", threw |-> ~caught]

\* mutant: the error of readFileSync or JSON.parse is not caught
loadPersistentCacheNoCatch(map, file, readResult) ==
    IF file.kind = "missing" THEN noCacheFile(map)
    ELSE IF file.kind = "json" /\ readResult = "ok" THEN loadedFrom(map, file.data)
    ELSE loadError(map, FALSE)

\* mutant: the last entry of the file is not set in the map
loadPersistentCacheButLast(map, file, readResult) ==
    IF file.kind = "missing" THEN noCacheFile(map)
    ELSE IF file.kind = "json" /\ readResult = "ok"
    THEN [loadedFrom(map, file.data) EXCEPT
             !.cache = spread(map, SubSeq(file.data, 1, Len(file.data) - 1))]
    ELSE loadError(map, TRUE)

\* loadPersistentCache: every entry of a file that is read and parsed is set in
\* the map and their number is returned; without a file, or when reading or
\* parsing throws, the map is left alone and 0 is returned
loadPersistentCache(map, file, readResult) ==
    IF file.kind = "missing" THEN noCacheFile(map)
    ELSE IF file.kind = "json" /\ readResult = "ok" THEN loadedFrom(map, file.data)
    ELSE loadError(map, TRUE)

\* const index = docVectors.map((vec, i) => ({ vector, text, metadata }))
\* mutant: the vectors of any cached batch of documents are taken, cut to the
\* length of the corpus
anyCachedBatch(map, texts) ==
    LET batches == SelectSeq(map, LAMBDA e : e.key[1] = "embeddings_")
    IN  IF batches = <<>> THEN [hit |-> FALSE, vectors |-> <<>>]
        ELSE [hit |-> TRUE,
              vectors |-> SubSeq(batches[1].value, 1,
                                 Min(Len(batches[1].value), Len(texts)))]

\* embeddingCache.has(cacheKey) and embeddingCache.get(cacheKey) for the key of
\* the list of chunk texts
cachedBatch(map, texts) ==
    IF cacheHas(map, docCacheKey(texts))
    THEN [hit |-> TRUE, vectors |-> cacheGet(map, docCacheKey(texts))]
    ELSE [hit |-> FALSE, vectors |-> <<>>]

buildIndex(docVectors, texts) ==
    [i \in 1..Len(docVectors) |->
        [vector |-> docVectors[i], text |-> texts[i],
         metadata |-> [source |-> "README.md", type |-> "documentation"]]]

\* the acceptance gate, as a rational
acceptanceGate == <<6, 10>>

\* mutant: a confidence of exactly 0.6 passes the gate
acceptsFaqAtGate(resp) == resp # Null /\ RGe(resp.confidence, acceptanceGate)

\* faqResponse && faqResponse.confidence > 0.6
acceptsFaq(resp) == resp # Null /\ RGt(resp.confidence, acceptanceGate)

(***************************************************************************)
(* Scorer harness: calculateSimilarity applied to every pair of strings of *)
(* at most MaxLen characters.                                              *)
(***************************************************************************)
Strings(n) == UNION {[1..k -> Chars] : k \in 0..n}

\* the harnesses that are not running
MatchIdle ==
    /\ mFaq = FallbackFaq /\ mQuestion = <<>> /\ mResult = NotYet
ScoreIdle ==
    /\ sQuestion = <<>> /\ sFaqQuestion = <<>> /\ sResult = NotYet
SearchIdle ==
    /\ vFast = FALSE /\ vUltra = FALSE /\ vIndex = <<>> /\ vQuery = <<>>
    /\ vResult = NotYet
CosineIdle ==
    /\ cA = <<>> /\ cB = <<>> /\ cResult = NotYet
KeyIdle ==
    /\ kDocHash = <<>> /\ kQueryHash = <<>> /\ kResult = NotYet
DebugIdle ==
    /\ DEBUG_MODE = FALSE /\ dProvider = "answers" /\ dResult = NotYet
SessionIdle ==
    /\ FAST_MODE = FALSE /\ ULTRA_FAST = FALSE /\ faq = FallbackFaq
    /\ cacheFile = [kind |-> "missing"] /\ embeddingCache = <<>>
    /\ docTexts = <<>> /\ index = <<>> /\ phase = "Exited" /\ restarts = 0 /\ asked = 0
    /\ cachedCount = 0 /\ loadOutcome = "none" /\ lastWrite = "none"
    /\ startupError = "none"
    /\ TEST_MODE = FALSE /\ readmeFile = "present" /\ caller = "none" /\ testIdx = 0
    /\ typed = NotYet
    /\ pc = "Idle" /\ question = <<>> /\ faqResponse = Null /\ queryVec = <<>>
    /\ topK = <<>> /\ outcome = "none"
    /\ calls = [embed |-> 0, search |-> 0, generate |-> 0]

\* a configuration with the single canonical question q
singleFaq(q) ==
    [nested |-> <<[key |-> "balance",
                   value |-> Category(<<q>>, [text |-> "answer"], Undefined, Undefined)]>>,
     top |-> <<>>]

ScoreInit ==
    /\ sQuestion \in Strings(MaxLen)
    /\ sFaqQuestion \in Strings(MaxLen)
    /\ sResult = NotYet
    /\ MatchIdle /\ SearchIdle /\ CosineIdle /\ KeyIdle /\ DebugIdle /\ SessionIdle

\* the scorer applied to the pair in both orders, and the matcher's wrapper
\* applied to the question with the other string as the only canonical question
ApplyScore ==
    /\ sResult = NotYet
    /\ sResult' = [ab |-> calculateSimilarity(sQuestion, sFaqQuestion),
                   ba |-> calculateSimilarity(sFaqQuestion, sQuestion),
                   instant |-> getInstantAnswer(singleFaq(sFaqQuestion), sQuestion)]
    /\ UNCHANGED <<sQuestion, sFaqQuestion, matchVars, searchVars, cosineVars, keyVars,
                   debugVars, sessionVars>>

ScoreNext == ApplyScore

SpecScore == ScoreInit /\ [][ScoreNext]_vars

(***************************************************************************)
(* Matcher harness: findBestMatch applied to a question and a loaded       *)
(* configuration of up to two nested categories with up to MaxQs canonical *)
(* questions each and up to one top-level category, whose key may be that  *)
(* of a nested one.                                                        *)
(***************************************************************************)
\* most canonical questions in one category
MaxQs == 2

\* canonical questions
CanonA == <<"a", " ", "c">>
CanonB == <<"b", " ", "d">>
CanonC == <<"a", " ", "b", " ", "d">>
Canonicals == {CanonA, CanonB, CanonC}

\* questions asked
MatchQuestions ==
    { <<"a", " ", "b">>,             \* 1/2 with CanonA and CanonB, 0.9 with CanonC
      <<"a">>,                       \* 0.9 with CanonA and CanonC, 0 with CanonB
      <<"c", " ", "e", " ", "f">>,   \* 1/3 with CanonA, 0 with the others
      <<"B", " ", "D", " ">> }       \* 1.0 with CanonB, 0.9 with CanonC, 0 with CanonA

QuestionLists == UNION {[1..k -> Canonicals] : k \in 0..MaxQs}

\* the category stored under key k at the given level; its answer tells the
\* level and the key
CategoryAt(level, k, qs) ==
    [key |-> k,
     value |-> Category(qs, [text |-> <<level, k>>],
                        IF k = "balance" THEN [text |-> "rsk-cli balance"] ELSE Undefined,
                        IF k = "balance" THEN [bool |-> TRUE] ELSE Undefined)]

NestedObjects ==
    {<<>>}
    \cup {<<CategoryAt("nested", "balance", qs)>> : qs \in QuestionLists}
    \cup {<<CategoryAt("nested", "balance", qs[1]), CategoryAt("nested", "transfer", qs[2])>> :
            qs \in QuestionLists \X QuestionLists}

\* a top-level category has at most one canonical question
ShortLists == {qs \in QuestionLists : Len(qs) <= 1}

TopObjects ==
    {<<>>}
    \cup {<<[key |-> k, value |-> NoQuestions]>> : k \in {"balance", "general"}}
    \cup {<<CategoryAt("top", k, qs)>> : k \in {"balance", "general"}, qs \in ShortLists}

FaqConfigs == {[nested |-> n, top |-> t] : n \in NestedObjects, t \in TopObjects}

MatchInit ==
    /\ mFaq \in FaqConfigs \cup {FallbackFaq}
    /\ mQuestion \in MatchQuestions
    /\ mResult = NotYet
    /\ ScoreIdle /\ SearchIdle /\ CosineIdle /\ KeyIdle /\ DebugIdle /\ SessionIdle

ApplyMatch ==
    /\ mResult = NotYet
    /\ mResult' = [match |-> findBestMatch(mFaq, mQuestion)]
    /\ UNCHANGED <<mFaq, mQuestion, scoreVars, searchVars, cosineVars, keyVars, debugVars,
                   sessionVars>>

MatchNext == ApplyMatch

SpecMatch == MatchInit /\ [][MatchNext]_vars

(***************************************************************************)
(* Search harness: the similarity search applied, under each setting of    *)
(* the two mode flags, to every index of up to MaxIndex records.           *)
(***************************************************************************)
\* most records in the index
MaxIndex == 6

\* document vectors: against QueryX they score 1, 3/5, 0 and -4/5, against
\* QueryY 0, 4/5, 0 and 3/5
DocVectors == {<<1, 0>>, <<3, 4>>, <<0, 0>>, <<-4, 3>>}
QueryX == <<1, 0>>
QueryY == <<0, 1>>
QueryVectors == {QueryX, QueryY}

\* the index built from a list of vectors: record i is chunk i of the corpus
indexOf(docVectors) ==
    [i \in 1..Len(docVectors) |->
        [vector |-> docVectors[i], text |-> i,
         metadata |-> [source |-> "README.md", type |-> "documentation"]]]

VectorLists(n) == UNION {[1..k -> DocVectors] : k \in 0..n}

SearchInit ==
    /\ vFast \in BOOLEAN /\ vUltra \in BOOLEAN
    /\ vIndex \in {indexOf(vs) : vs \in VectorLists(MaxIndex)}
    /\ vQuery \in QueryVectors
    /\ vResult = NotYet
    /\ ScoreIdle /\ MatchIdle /\ CosineIdle /\ KeyIdle /\ DebugIdle /\ SessionIdle

ApplySearch ==
    /\ vResult = NotYet
    /\ vResult' = [topK |-> similaritySearch(vFast, vUltra, vIndex, vQuery)]
    /\ UNCHANGED <<vFast, vUltra, vIndex, vQuery, scoreVars, matchVars, cosineVars, keyVars,
                   debugVars, sessionVars>>

SearchNext == ApplySearch

SpecSearch == SearchInit /\ [][SearchNext]_vars

(***************************************************************************)
(* Cosine harness: cosineSimilarity applied to every pair of vectors of up *)
(* to MaxDim components, of equal or different lengths.                    *)
(***************************************************************************)
\* most components of a vector
MaxDim == 2

\* the components of the vectors
Components == {-4, 0, 3, 4}

\* whether n is the square of an integer
IsSquare(n) == \E r \in 0..n : r * r = n

\* the vectors: over every prefix the squared norm is a perfect square
TestVectors ==
    {v \in UNION {[1..k -> Components] : k \in 0..MaxDim} :
        \A k \in 1..Len(v) : IsSquare(sumTo([i \in 1..k |-> v[i] * v[i]], k))}

CosineInit ==
    /\ cA \in TestVectors /\ cB \in TestVectors
    /\ cResult = NotYet
    /\ ScoreIdle /\ MatchIdle /\ SearchIdle /\ KeyIdle /\ DebugIdle /\ SessionIdle

ApplyCosine ==
    /\ cResult = NotYet
    /\ cResult' = [score |-> cosineSimilarity(cA, cB)]
    /\ UNCHANGED <<cA, cB, scoreVars, matchVars, searchVars, keyVars, debugVars, sessionVars>>

CosineNext == ApplyCosine

SpecCosine == CosineInit /\ [][CosineNext]_vars

(***************************************************************************)
(* Key harness: the two cache keys, made of every pair of hex digests of   *)
(* DigestLen characters, equal digests included.                           *)
(***************************************************************************)
\* length of a digest (the 32 hex digits of md5, scaled down)
DigestLen == 2

\* hex digits: those the two prefixes start with or contain, and two others
HexDigits == {"0", "9", "e", "d"}

\* the digests digest('hex') can return
Digests == [1..DigestLen -> HexDigits]

KeyInit ==
    /\ kDocHash \in Digests /\ kQueryHash \in Digests
    /\ kResult = NotYet
    /\ ScoreIdle /\ MatchIdle /\ SearchIdle /\ CosineIdle /\ DebugIdle /\ SessionIdle

\* both keys are made, and each is looked up in a cache that holds an entry
\* under the other
MakeKeys ==
    /\ kResult = NotYet
    /\ kResult' =
          LET docKey == docCacheKeyString(kDocHash)
              queryKey == queryCacheKeyString(kQueryHash)
          IN  [docKey |-> docKey, queryKey |-> queryKey,
               docHitsQuery |-> cacheHas(cacheSet(<<>>, queryKey, QueryX), docKey),
               queryHitsDoc |-> cacheHas(cacheSet(<<>>, docKey, <<QueryX>>), queryKey)]
    /\ UNCHANGED <<kDocHash, kQueryHash, scoreVars, matchVars, searchVars, cosineVars,
                   debugVars, sessionVars>>

KeyNext == MakeKeys

SpecKey == KeyInit /\ [][KeyNext]_vars

(***************************************************************************)
(* Debug harness: askQuestion from the similarity search on, with and      *)
(* without DEBUG_MODE, for every index of up to MaxDebugIndex records.     *)
(***************************************************************************)
\* most records of the index
MaxDebugIndex == 3

\* Math.round(item.score * 20) of a score num/den with den > 0
roundTimes20(score) == (40 * score[1] + score[2]) \div (2 * score[2])

\* String.prototype.repeat(count) throws a RangeError for a negative count
repeatThrows(count) == count < 0

\* the TOP SIMILARITY MATCHES display: the two bars of a result
scoreBarThrows(item) ==
    \/ repeatThrows(roundTimes20(item.score))
    \/ repeatThrows(20 - roundTimes20(item.score))

\* what ollamaModel.call(prompt) does
ProviderOutcomes == {"answers", "fails"}

\* askQuestion from the search on: the search, the display of the results in
\* DEBUG_MODE, the context and the prompt, ollamaModel.call; an error goes to
\* the catch of askQuestion
askFromSearch(debug, fast, ultra, idx, qVec, provider) ==
    LET results == similaritySearch(fast, ultra, idx, qVec)
    IN  IF debug /\ \E i \in 1..Len(results) : scoreBarThrows(results[i])
        THEN [topK |-> results, generate |-> 0, outcome |-> "error"]
        ELSE [topK |-> results, generate |-> 1,
              outcome |-> IF provider = "answers" THEN "rag" ELSE "error"]

DebugInit ==
    /\ DEBUG_MODE \in BOOLEAN /\ dProvider \in ProviderOutcomes
    /\ vFast \in BOOLEAN /\ vUltra \in BOOLEAN
    /\ vIndex \in {indexOf(vs) : vs \in VectorLists(MaxDebugIndex)}
    /\ vQuery \in QueryVectors
    /\ vResult = NotYet /\ dResult = NotYet
    /\ ScoreIdle /\ MatchIdle /\ CosineIdle /\ KeyIdle /\ SessionIdle

AskFromSearch ==
    /\ dResult = NotYet
    /\ dResult' = askFromSearch(DEBUG_MODE, vFast, vUltra, vIndex, vQuery, dProvider)
    /\ UNCHANGED <<DEBUG_MODE, dProvider, scoreVars, matchVars, searchVars, cosineVars,
                   keyVars, sessionVars>>

DebugNext == AskFromSearch

SpecDebug == DebugInit /\ [][DebugNext]_vars

(***************************************************************************)
(* The process: start-up, the questions handed to askQuestion one at a     *)
(* time, and restarts of the process over the same cache file.             *)
(***************************************************************************)
\* most restarts of the process
MaxRestarts == 1

\* most questions asked, over all runs of the process
MaxQuestions == 2

\* the FAQ configuration of the session
SessionFaq ==
    [nested |->
        <<[key |-> "balance",
           value |-> Category(<< <<"c", " ", "b", " ", "a", " ", "x", " ", "y">> >>,
                              [text |-> "use rsk-cli balance"],
                              [text |-> "rsk-cli balance"], [bool |-> TRUE])],
          [key |-> "transfer",
           value |-> Category(<< <<"a", " ", "d">> >>, [text |-> "use rsk-cli transfer"],
                              Undefined, Undefined)]>>,
     top |-> <<[key |-> "general", value |-> NoQuestions]>>]

\* questions: their best scores against SessionFaq are 3/5, 1/2, 4/5 and 0
QuestionGate == <<"a", " ", "b", " ", "c">>
QuestionHalf == <<"a", " ", "b">>
QuestionHigh == <<"a", " ", "b", " ", "c", " ", "x">>
QuestionNone == <<"e">>
Questions == {QuestionGate, QuestionHalf, QuestionHigh, QuestionNone}

\* the chunk texts the splitter produces from the documents: the chunk size,
\* and with it the list of chunks, depends on the mode
splitDocuments(fast, ultra) ==
    IF ultra THEN <<"u-chunk-1", "u-chunk-2", "u-chunk-3", "u-chunk-4">>
    ELSE IF fast THEN <<"f-chunk-1", "f-chunk-2", "f-chunk-3">>
    ELSE <<"chunk-1", "chunk-2">>

\* the embedding provider: the vectors it returns for a list of chunks and for
\* a question
ProviderVectors == <<<<-4, 3>>, <<3, 4>>, <<0, 0>>, <<1, 0>>>>
embedDocuments(texts) == [i \in 1..Len(texts) |-> ProviderVectors[i]]
embedQuery(qText) == IF Len(qText) > 3 THEN QueryX ELSE QueryY

\* what the cache file holds when the process first starts
InitialCacheFiles ==
    {[kind |-> "missing"], [kind |-> "corrupt"],
     [kind |-> "json",
      data |-> <<[key |-> queryCacheKey(QuestionGate), value |-> QueryY]>>]}

\* what docs/faq-commands.json is when the FAQSystem is constructed
FaqFiles ==
    {[kind |-> "missing"], [kind |-> "corrupt"], [kind |-> "json", data |-> SessionFaq]}

\* mutant: after a failed load the matcher has the categories of the session
loadFAQStale(file) == IF file.kind = "json" THEN file.data ELSE SessionFaq

\* loadFAQ: the parsed file, or the fallback of the catch
loadFAQ(file) == IF file.kind = "json" THEN file.data ELSE FallbackFaq

\* whether docs/README.md can be read
ReadmeFiles == {"present", "missing"}

\* mutant: the start-up goes on without README.md
readmeNeverThrows(file) == FALSE

\* fs.readFileSync("./docs/README.md", "utf8") throws
readmeThrows(file) == file = "missing"

\* most test questions of the test run
MaxTests == 2

\* testQuestions: the first MaxTests of a list of distinct questions
TestQuestionPool == <<QuestionHigh, QuestionNone, QuestionGate, QuestionHalf>>
testQuestions == SubSeq(TestQuestionPool, 1, MaxTests)

\* the lines the user types at the prompt: the questions, one of them with
\* white space around it, and the words the loop handles itself, plain or in
\* mixed case with white space around them
ExitLines == {<<"e", "x", "i", "t">>, <<" ", "Q", "u", "I", "T", " ">>}
HelpLines == {<<" ", "H", "e", "l", "p">>}
EmptyLines == {<<" ", " ">>}
QuestionLines == Questions \cup {<<" ", "e", " ">>}
InputLines == ExitLines \cup HelpLines \cup EmptyLines \cup QuestionLines

\* mutant: only the very words exit and quit end the session
isExitInputExact(line) == line = <<"e", "x", "i", "t">> \/ line = <<"q", "u", "i", "t">>

\* trimmedQuestion.toLowerCase() === 'exit' || ... === 'quit'
isExitInput(line) ==
    LET lowered == toLowerCase(trim(line))
    IN  lowered = <<"e", "x", "i", "t">> \/ lowered = <<"q", "u", "i", "t">>

\* trimmedQuestion.toLowerCase() === 'help'
isHelpInput(line) == toLowerCase(trim(line)) = <<"h", "e", "l", "p">>

\* trimmedQuestion === ''
isEmptyInput(line) == trim(line) = <<>>

\* the lines the callback of rl.question takes for exit or quit, for help (the
\* check for exit comes first), for nothing, and the questions it hands to
\* askQuestion, which are the trimmed lines that are left
ExitInputs == {line \in InputLines : isExitInput(line)}
HelpInputs == {line \in InputLines \ ExitInputs : isHelpInput(line)}
EmptyInputs == {line \in InputLines \ (ExitInputs \cup HelpInputs) : isEmptyInput(line)}
QuestionLineInputs == InputLines \ (ExitInputs \cup HelpInputs \cup EmptyInputs)
Trimmed == [line \in InputLines |-> trim(line)]
QuestionInputs == {Trimmed[line] : line \in QuestionLineInputs}

\* the questions askQuestion is called with, and the configurations the
\* FAQSystem can hold
AskedQuestions == QuestionInputs \cup {testQuestions[i] : i \in 1..Len(testQuestions)}
LoadedFaqs == {loadFAQ(f) : f \in FaqFiles}

\* faqSystem.getInstantAnswer(question), computed once for every configuration
\* and question of the session
InstantAnswers ==
    [cfg \in LoadedFaqs |-> [qText \in AskedQuestions |-> getInstantAnswer(cfg, qText)]]

\* the index the start-up builds in a mode, and the similarity search over it,
\* computed once for every mode and query vector
ModeIndex(fast, ultra) ==
    buildIndex(embedDocuments(splitDocuments(fast, ultra)), splitDocuments(fast, ultra))
SearchResults ==
    [fast \in BOOLEAN |-> [ultra \in BOOLEAN |-> [qVec \in QueryVectors |->
        similaritySearch(fast, ultra, ModeIndex(fast, ultra), qVec)]]]

\* where the top-level code goes once the index is built: startInteractiveChat
\* and its first prompt, or the loop over testQuestions
firstCaller(test) == IF test THEN "looping" ELSE "prompting"

NoCalls == [embed |-> 0, search |-> 0, generate |-> 0]

NoQuestion ==
    /\ pc = "Idle" /\ question = <<>> /\ faqResponse = Null /\ queryVec = <<>>
    /\ topK = <<>> /\ outcome = "none" /\ calls = NoCalls

\* the process has been started: the environment has set the flags, the
\* FAQSystem is constructed, nothing else has run
ProcessStarted(testModes, faqFiles) ==
    /\ FAST_MODE \in BOOLEAN /\ ULTRA_FAST \in BOOLEAN /\ TEST_MODE \in testModes
    /\ \E f \in faqFiles : faq = loadFAQ(f)
    /\ cacheFile \in InitialCacheFiles
    /\ readmeFile \in ReadmeFiles
    /\ embeddingCache = <<>> /\ docTexts = <<>> /\ index = <<>>
    /\ phase = "Start" /\ restarts = 0 /\ asked = 0
    /\ cachedCount = 0 /\ loadOutcome = "none" /\ lastWrite = "none"
    /\ startupError = "none"
    /\ caller = "none" /\ testIdx = 0 /\ typed = NotYet
    /\ NoQuestion
    /\ ScoreIdle /\ MatchIdle /\ SearchIdle /\ CosineIdle /\ KeyIdle /\ DebugIdle

\* interactive sessions with the FAQ configuration in place
Init == ProcessStarted({FALSE}, {f \in FaqFiles : f.kind = "json"})

others == <<scoreVars, matchVars, searchVars, cosineVars, keyVars, debugVars>>

\* the top-level code up to the embedding of the corpus: the cache file is
\* loaded, README.md is read and split; an error ends the run in the top-level
\* catch
StartupLoad ==
    /\ phase = "Start"
    /\ \E r \in ReadResults :
          LET load == loadPersistentCache(embeddingCache, cacheFile, r)
              texts == splitDocuments(FAST_MODE, ULTRA_FAST)
              batch == cachedBatch(load.cache, texts)
          IN  /\ embeddingCache' = load.cache
              /\ loadOutcome' = load.outcome
              /\ IF load.threw
                 THEN /\ phase' = "Exited" /\ startupError' = "cache"
                      /\ UNCHANGED <<cachedCount, docTexts, index, caller>>
                 ELSE /\ cachedCount' = load.count
                      /\ IF readmeThrows(readmeFile)
                         THEN /\ phase' = "Exited" /\ startupError' = "readme"
                              /\ UNCHANGED <<docTexts, index, caller>>
                         ELSE /\ docTexts' = texts
                              /\ startupError' = startupError
                              /\ IF batch.hit
                                 THEN /\ index' = buildIndex(batch.vectors, texts)
                                      /\ phase' = "Ready"
                                      /\ caller' = firstCaller(TEST_MODE)
                                 ELSE /\ index' = index
                                      /\ phase' = "EmbedDocs"
                                      /\ caller' = caller
    /\ UNCHANGED <<FAST_MODE, ULTRA_FAST, faq, cacheFile, restarts, asked, lastWrite,
                   TEST_MODE, readmeFile, testIdx, typed, askVars, others>>

\* embeddings.embedDocuments(docTexts) returns: the vectors are cached, the cache
\* is saved and the index is built
EmbedDocsReturn ==
    /\ phase = "EmbedDocs"
    /\ \E w \in WriteResults :
          LET docVectors == embedDocuments(docTexts)
          IN  /\ embeddingCache' = cacheSet(embeddingCache, docCacheKey(docTexts), docVectors)
              /\ cacheFile' = savePersistentCache(embeddingCache', cacheFile, w)
              /\ lastWrite' = w
              /\ index' = buildIndex(docVectors, docTexts)
    /\ phase' = "Ready"
    /\ caller' = firstCaller(TEST_MODE)
    /\ UNCHANGED <<FAST_MODE, ULTRA_FAST, faq, docTexts, restarts, asked, cachedCount,
                   loadOutcome, startupError, TEST_MODE, readmeFile, testIdx, typed, askVars,
                   others>>

\* embeddings.embedDocuments(docTexts) throws: the top-level catch ends the run
EmbedDocsFail ==
    /\ phase = "EmbedDocs"
    /\ phase' = "Exited"
    /\ startupError' = "embed"
    /\ UNCHANGED <<FAST_MODE, ULTRA_FAST, faq, cacheFile, embeddingCache, docTexts, index,
                   restarts, asked, cachedCount, loadOutcome, lastWrite, runVars, askVars,
                   others>>

\* mutant: a line is handled whenever it arrives, as by a listener for every
\* line, and not only by the callback of a pending rl.question
AskAnyTime ==
    /\ phase = "Ready" /\ ~TEST_MODE /\ asked < MaxQuestions
    /\ \E line \in QuestionLineInputs :
          typed' = [text |-> line] /\ question' = Trimmed[line]
    /\ asked' = asked + 1
    /\ caller' = "awaiting"
    /\ pc' = "Start"
    /\ faqResponse' = Null /\ queryVec' = <<>> /\ topK' = <<>>
    /\ outcome' = "none" /\ calls' = NoCalls
    /\ UNCHANGED <<FAST_MODE, ULTRA_FAST, faq, cacheFile, embeddingCache, docTexts, index,
                   phase, restarts, ioVars, TEST_MODE, readmeFile, testIdx, others>>

\* the callback of rl.question gets a line that is a question: askQuestion is
\* called with the trimmed line
Ask ==
    /\ phase = "Ready" /\ caller = "prompting" /\ asked < MaxQuestions
    /\ \E line \in QuestionLineInputs :
          typed' = [text |-> line] /\ question' = Trimmed[line]
    /\ asked' = asked + 1
    /\ caller' = "awaiting"
    /\ pc' = "Start"
    /\ faqResponse' = Null /\ queryVec' = <<>> /\ topK' = <<>>
    /\ outcome' = "none" /\ calls' = NoCalls
    /\ UNCHANGED <<FAST_MODE, ULTRA_FAST, faq, cacheFile, embeddingCache, docTexts, index,
                   phase, restarts, ioVars, TEST_MODE, readmeFile, testIdx, others>>

\* the callback gets help: the examples are printed and the prompt is issued again
Help ==
    /\ phase = "Ready" /\ caller = "prompting"
    /\ \E line \in HelpInputs : typed' = [text |-> line]
    /\ caller' = "prompting"
    /\ UNCHANGED <<FAST_MODE, ULTRA_FAST, faq, cacheFile, embeddingCache, docTexts, index,
                   phase, restarts, asked, ioVars, TEST_MODE, readmeFile, testIdx, askVars,
                   others>>

\* the callback gets an empty line: a hint is printed and the prompt is issued again
EmptyInput ==
    /\ phase = "Ready" /\ caller = "prompting"
    /\ \E line \in EmptyInputs : typed' = [text |-> line]
    /\ caller' = "prompting"
    /\ UNCHANGED <<FAST_MODE, ULTRA_FAST, faq, cacheFile, embeddingCache, docTexts, index,
                   phase, restarts, asked, ioVars, TEST_MODE, readmeFile, testIdx, askVars,
                   others>>

\* askQuestion has returned to the callback, which issues the prompt again
PromptAgain ==
    /\ phase = "Ready" /\ ~TEST_MODE /\ caller = "awaiting" /\ pc = "Done"
    /\ caller' = "prompting"
    /\ UNCHANGED <<FAST_MODE, ULTRA_FAST, faq, cacheFile, embeddingCache, docTexts, index,
                   phase, restarts, asked, ioVars, TEST_MODE, readmeFile, testIdx, typed, askVars,
                   others>>

\* the test loop calls askQuestion(testQuestions[i])
TestAsk ==
    /\ phase = "Ready" /\ caller = "looping" /\ testIdx < Len(testQuestions)
    /\ question' = testQuestions[testIdx + 1]
    /\ asked' = asked + 1
    /\ caller' = "awaiting"
    /\ pc' = "Start"
    /\ faqResponse' = Null /\ queryVec' = <<>> /\ topK' = <<>>
    /\ outcome' = "none" /\ calls' = NoCalls
    /\ UNCHANGED <<FAST_MODE, ULTRA_FAST, faq, cacheFile, embeddingCache, docTexts, index,
                   phase, restarts, ioVars, TEST_MODE, readmeFile, testIdx, typed, others>>

\* askQuestion has returned to the test loop: after the pause i is incremented
TestResume ==
    /\ phase = "Ready" /\ TEST_MODE /\ caller = "awaiting" /\ pc = "Done"
    /\ testIdx' = testIdx + 1
    /\ caller' = "looping"
    /\ UNCHANGED <<FAST_MODE, ULTRA_FAST, faq, cacheFile, embeddingCache, docTexts, index,
                   phase, restarts, asked, ioVars, TEST_MODE, readmeFile, typed, askVars, others>>

\* i has reached testQuestions.length: the test run is complete
TestDone ==
    /\ phase = "Ready" /\ caller = "looping" /\ testIdx = Len(testQuestions)
    /\ caller' = "finished"
    /\ phase' = "Exited"
    /\ UNCHANGED <<FAST_MODE, ULTRA_FAST, faq, cacheFile, embeddingCache, docTexts, index,
                   restarts, asked, ioVars, TEST_MODE, readmeFile, testIdx, typed, askVars, others>>

\* mutant: a question the FAQ does not answer goes to the search at once
FAQCheckSkipsEmbedding ==
    /\ phase = "Ready" /\ pc = "Start"
    /\ faqResponse' = InstantAnswers[faq][question]
    /\ pc' = IF acceptsFaq(faqResponse') THEN "Answered" ELSE "VectorSearch"
    /\ UNCHANGED <<procVars, question, faqResponse, queryVec, topK, outcome, calls, others>>

\* STEP 1: the FAQ system is asked, and its answer is put to the acceptance gate
FAQCheck ==
    /\ phase = "Ready" /\ pc = "Start"
    /\ faqResponse' = InstantAnswers[faq][question]
    /\ pc' = IF acceptsFaq(faqResponse') THEN "Answered" ELSE "RetrievalNeeded"
    /\ UNCHANGED <<procVars, question, queryVec, topK, outcome, calls, others>>

\* mutant: the FAQ answer is printed, but askQuestion goes on to retrieval
AnswerFromFaqNoReturn ==
    /\ phase = "Ready" /\ pc = "Answered"
    /\ outcome' = "faq"
    /\ pc' = "RetrievalNeeded"
    /\ UNCHANGED <<procVars, question, faqResponse, queryVec, topK, calls, others>>

\* the FAQ answer is printed and askQuestion returns
AnswerFromFaq ==
    /\ phase = "Ready" /\ pc = "Answered"
    /\ outcome' = "faq"
    /\ pc' = "Done"
    /\ UNCHANGED <<procVars, question, faqResponse, queryVec, topK, calls, others>>

\* mutant: the provider is called whether or not the cache has the key
LookupQueryCacheAlwaysEmbeds ==
    /\ phase = "Ready" /\ pc = "RetrievalNeeded"
    /\ queryVec' = queryVec
    /\ pc' = "EmbedQuery"
    /\ calls' = [calls EXCEPT !.embed = @ + 1]
    /\ UNCHANGED <<procVars, question, faqResponse, topK, outcome, others>>

\* STEP 2: the query vector is taken from the cache, or the provider is called
LookupQueryCache ==
    /\ phase = "Ready" /\ pc = "RetrievalNeeded"
    /\ IF cacheHas(embeddingCache, queryCacheKey(question))
       THEN /\ queryVec' = cacheGet(embeddingCache, queryCacheKey(question))
            /\ pc' = "VectorSearch"
            /\ calls' = calls
       ELSE /\ queryVec' = queryVec
            /\ pc' = "EmbedQuery"
            /\ calls' = [calls EXCEPT !.embed = @ + 1]
    /\ UNCHANGED <<procVars, question, faqResponse, topK, outcome, others>>

\* embeddings.embedQuery(question) returns: the vector is cached and the cache saved
EmbedQueryReturn ==
    /\ phase = "Ready" /\ pc = "EmbedQuery"
    /\ \E w \in WriteResults :
          /\ queryVec' = embedQuery(question)
          /\ embeddingCache' = cacheSet(embeddingCache, queryCacheKey(question), queryVec')
          /\ cacheFile' = savePersistentCache(embeddingCache', cacheFile, w)
          /\ lastWrite' = w
    /\ pc' = "VectorSearch"
    /\ UNCHANGED <<FAST_MODE, ULTRA_FAST, faq, docTexts, index, phase, restarts, asked,
                   cachedCount, loadOutcome, startupError, runVars,
                   question, faqResponse, topK, outcome, calls, others>>

\* mutant: after a failed embedding the question is embedded again
EmbedQueryFailRetries ==
    /\ phase = "Ready" /\ pc = "EmbedQuery"
    /\ outcome' = "error"
    /\ pc' = "RetrievalNeeded"
    /\ UNCHANGED <<procVars, question, faqResponse, queryVec, topK, calls, others>>

\* mutant: askQuestion has no catch of its own: the error reaches the caller,
\* which is the try of the callback or, in the test run, the top-level catch
EmbedQueryFailUncaught ==
    /\ phase = "Ready" /\ pc = "EmbedQuery"
    /\ outcome' = "error"
    /\ pc' = "Done"
    /\ phase' = IF TEST_MODE THEN "Exited" ELSE phase
    /\ startupError' = IF TEST_MODE THEN "question" ELSE startupError
    /\ UNCHANGED <<FAST_MODE, ULTRA_FAST, faq, cacheFile, embeddingCache, docTexts, index,
                   restarts, asked, cachedCount, loadOutcome, lastWrite, runVars,
                   question, faqResponse, queryVec, topK, calls, others>>

\* mutant: the failed embedding leaves an empty vector under the question's key
EmbedQueryFailCachesNothing ==
    /\ phase = "Ready" /\ pc = "EmbedQuery"
    /\ embeddingCache' = cacheSet(embeddingCache, queryCacheKey(question), <<>>)
    /\ outcome' = "error"
    /\ pc' = "Done"
    /\ UNCHANGED <<FAST_MODE, ULTRA_FAST, faq, cacheFile, docTexts, index, phase,
                   restarts, asked, ioVars, runVars, question, faqResponse, queryVec,
                   topK, calls, others>>

\* embeddings.embedQuery(question) throws: askQuestion's catch reports the error
EmbedQueryFail ==
    /\ phase = "Ready" /\ pc = "EmbedQuery"
    /\ outcome' = "error"
    /\ pc' = "Done"
    /\ UNCHANGED <<procVars, question, faqResponse, queryVec, topK, calls, others>>

\* mutant: the search sorts the index itself by score, in place
VectorSearchSortsIndex ==
    /\ phase = "Ready" /\ pc = "VectorSearch"
    /\ index' = LET tagged == [i \in 1..Len(index) |->
                                 [score |-> cosineSimilarity(queryVec, index[i].vector),
                                  rec |-> index[i]]]
                    sorted == sortByScore(tagged)
                IN  [i \in 1..Len(index) |-> sorted[i].rec]
    /\ topK' = similaritySearch(FAST_MODE, ULTRA_FAST, index', queryVec)
    /\ calls' = [calls EXCEPT !.search = @ + 1, !.generate = @ + 1]
    /\ pc' = "ContextAssembled"
    /\ UNCHANGED <<FAST_MODE, ULTRA_FAST, faq, cacheFile, embeddingCache, docTexts,
                   phase, restarts, asked, ioVars, runVars, question, faqResponse,
                   queryVec, outcome, others>>

\* the similarity search, the context and the prompt, up to ollamaModel.call
VectorSearch ==
    /\ phase = "Ready" /\ pc = "VectorSearch"
    /\ topK' = IF index = ModeIndex(FAST_MODE, ULTRA_FAST) /\ queryVec \in QueryVectors
               THEN SearchResults[FAST_MODE][ULTRA_FAST][queryVec]
               ELSE similaritySearch(FAST_MODE, ULTRA_FAST, index, queryVec)
    /\ calls' = [calls EXCEPT !.search = @ + 1, !.generate = @ + 1]
    /\ pc' = "ContextAssembled"
    /\ UNCHANGED <<procVars, question, faqResponse, queryVec, outcome, others>>

\* ollamaModel.call(prompt) returns: the answer is printed
GenerateReturn ==
    /\ phase = "Ready" /\ pc = "ContextAssembled"
    /\ outcome' = "rag"
    /\ pc' = "Done"
    /\ UNCHANGED <<procVars, question, faqResponse, queryVec, topK, calls, others>>

\* mutant: after a failed generation the question is searched and put to the
\* model again
GenerateFailRetries ==
    /\ phase = "Ready" /\ pc = "ContextAssembled"
    /\ outcome' = "error"
    /\ pc' = "VectorSearch"
    /\ UNCHANGED <<procVars, question, faqResponse, queryVec, topK, calls, others>>

\* ollamaModel.call(prompt) throws or times out
GenerateFail ==
    /\ phase = "Ready" /\ pc = "ContextAssembled"
    /\ outcome' = "error"
    /\ pc' = "Done"
    /\ UNCHANGED <<procVars, question, faqResponse, queryVec, topK, calls, others>>

\* the callback gets exit or quit: rl.close() ends the session
Exit ==
    /\ phase = "Ready" /\ caller = "prompting"
    /\ \E line \in ExitInputs : typed' = [text |-> line]
    /\ caller' = "closed"
    /\ phase' = "Exited"
    /\ UNCHANGED <<FAST_MODE, ULTRA_FAST, faq, cacheFile, embeddingCache, docTexts, index,
                   restarts, asked, ioVars, TEST_MODE, readmeFile, testIdx, askVars, others>>

\* the program is run again the same way: the memory is new, the environment
\* sets the speed flags, and the files are what the last run left
ProcessRestart ==
    /\ phase = "Exited" /\ restarts < MaxRestarts
    /\ restarts' = restarts + 1
    /\ FAST_MODE' \in BOOLEAN /\ ULTRA_FAST' \in BOOLEAN
    /\ embeddingCache' = <<>> /\ docTexts' = <<>> /\ index' = <<>>
    /\ phase' = "Start"
    /\ pc' = "Idle" /\ question' = <<>> /\ faqResponse' = Null /\ queryVec' = <<>>
    /\ topK' = <<>> /\ outcome' = "none" /\ calls' = NoCalls
    /\ cachedCount' = 0 /\ loadOutcome' = "none" /\ lastWrite' = "none"
    /\ startupError' = "none"
    /\ caller' = "none" /\ testIdx' = 0 /\ typed' = NotYet
    /\ UNCHANGED <<faq, cacheFile, asked, TEST_MODE, readmeFile, others>>

\* the user types questions, and exit or quit in the end
Next ==
    \/ StartupLoad \/ EmbedDocsReturn \/ EmbedDocsFail
    \/ Ask \/ PromptAgain
    \/ FAQCheck \/ AnswerFromFaq \/ LookupQueryCache
    \/ EmbedQueryReturn \/ EmbedQueryFail \/ VectorSearch
    \/ GenerateReturn \/ GenerateFail
    \/ Exit \/ ProcessRestart

Spec == Init /\ [][Next]_vars

(***************************************************************************)
(* One run of the process, interactive or over the test questions.  Every  *)
(* step the program takes by itself is taken, and every call of a provider *)
(* returns or fails; what the user types is up to the user.                *)
(***************************************************************************)
RunInit == ProcessStarted(BOOLEAN, FaqFiles)

RunNext ==
    \/ StartupLoad \/ EmbedDocsReturn \/ EmbedDocsFail
    \/ Ask \/ Help \/ EmptyInput \/ PromptAgain \/ Exit
    \/ TestAsk \/ TestResume \/ TestDone
    \/ FAQCheck \/ AnswerFromFaq \/ LookupQueryCache
    \/ EmbedQueryReturn \/ EmbedQueryFail \/ VectorSearch
    \/ GenerateReturn \/ GenerateFail

\* the steps the program takes by itself: at most one of them is enabled at a time
ProgramStep ==
    \/ StartupLoad \/ EmbedDocsReturn \/ EmbedDocsFail
    \/ PromptAgain \/ TestAsk \/ TestResume \/ TestDone
    \/ FAQCheck \/ AnswerFromFaq \/ LookupQueryCache
    \/ EmbedQueryReturn \/ EmbedQueryFail \/ VectorSearch
    \/ GenerateReturn \/ GenerateFail

RunFairness == WF_vars(ProgramStep)

SpecRun == RunInit /\ [][RunNext]_vars /\ RunFairness

(***************************************************************************)
(* Properties of askQuestion (checked under Spec)                          *)
(***************************************************************************)
\* some canonical question the matcher scans in the configuration scores
\* strictly more than 0.6 against the question
ScoresAboveGate(cfg, qText) ==
    LET pairs == scanOrder(allCategories(cfg))
    IN  \E i \in 1..Len(pairs) :
           RGt(calculateSimilarity(qText, pairs[i].faqQuestion), <<3, 5>>)

\* the same, tabulated for the configurations and questions of the session
GateTable ==
    [cfg \in {SessionFaq, FallbackFaq} |-> [q \in Questions |-> ScoresAboveGate(cfg, q)]]

AboveGate == GateTable[faq][question]

AnsweredFromFaq == pc = "Answered" \/ outcome = "faq"

InRetrieval ==
    \/ pc \in {"RetrievalNeeded", "EmbedQuery", "VectorSearch", "ContextAssembled"}
    \/ pc = "Done" /\ outcome \in {"rag", "error"}

\* C1: once the FAQ has been checked, the question is answered from the FAQ if
\* and only if its best score is strictly greater than 0.6, and in every other
\* case it is in retrieval
C1_FaqGate ==
    pc \notin {"Idle", "Start"} =>
        LET above == AboveGate
        IN  /\ AnsweredFromFaq <=> above
            /\ InRetrieval <=> ~above

\* a question whose best match scores exactly 0.6 has gone to retrieval
C1_Witness ==
    /\ pc = "RetrievalNeeded"
    /\ faqResponse # Null /\ REq(faqResponse.confidence, <<3, 5>>)

\* C2: a question answered from the FAQ makes no provider call and no vector
\* search, and no step of it changes the in-memory cache or the cache file
C2_FaqAnswerLeavesCacheAlone ==
    [][(pc' \in {"Start", "Answered"} \/ outcome' = "faq") =>
          /\ embeddingCache' = embeddingCache
          /\ cacheFile' = cacheFile
          /\ calls' = NoCalls]_vars

\* a question has been answered from the FAQ after an earlier question had put
\* its vector in the cache
C2_Witness ==
    /\ pc = "Done" /\ outcome = "faq" /\ calls = NoCalls
    /\ asked = 2
    /\ \E q \in Questions : cacheHas(embeddingCache, queryCacheKey(q))
    /\ ~cacheHas(embeddingCache, queryCacheKey(question))

(***************************************************************************)
(* Properties of the scorer (checked under SpecScore)                      *)
(***************************************************************************)
\* a string lower-cased, without the white space around it
Core(s) ==
    LET inked == {i \in 1..Len(s) : ~IsSpace(s[i])}
        first == CHOOSE i \in inked : \A j \in inked : i <= j
        last == CHOOSE i \in inked : \A j \in inked : j <= i
    IN  IF inked = {} THEN <<>>
        ELSE [i \in 1..(last - first + 1) |-> LowerChar(s[first + i - 1])]

\* x occurs in y
OccursIn(x, y) == \E i \in 0..Len(y) : \E j \in i..Len(y) : SubSeq(y, i + 1, j) = x

SameCore == Core(sQuestion) = Core(sFaqQuestion)
OneInOther ==
    /\ ~SameCore
    /\ \/ OccursIn(Core(sQuestion), Core(sFaqQuestion))
       \/ OccursIn(Core(sFaqQuestion), Core(sQuestion))
Scored == sResult # NotYet

\* the words of a string: its maximal runs of characters that are not white space
WordsOf(s) ==
    LET c == Core(s)
        starts == {i \in 1..Len(c) : ~IsSpace(c[i]) /\ (i = 1 \/ IsSpace(c[i - 1]))}
        endOf(i) == CHOOSE j \in i..Len(c) :
                        /\ \A k \in i..j : ~IsSpace(c[k])
                        /\ (j = Len(c) \/ IsSpace(c[j + 1]))
    IN  {<<i, SubSeq(c, i, endOf(i))>> : i \in starts}

\* C6: two strings that are equal after lower-casing and trimming score exactly 1.0
C6_ExactMatchScoresOne ==
    (Scored /\ SameCore) => (sResult.ab = <<1, 1>> /\ sResult.ba = <<1, 1>>)

\* two different strings that are equal after normalization have been scored
C6_Witness ==
    /\ Scored /\ SameCore /\ sQuestion # sFaqQuestion
    /\ Len(Core(sQuestion)) >= 2
    /\ toLowerCase(sQuestion) # toLowerCase(sFaqQuestion)
    /\ sResult.ab = <<1, 1>>

\* C7: if the normalized strings differ and one occurs in the other, the score is
\* exactly 0.9, whatever the word overlap
C7_SubstringScoresPointNine ==
    (Scored /\ OneInOther) => (sResult.ab = <<9, 10>> /\ sResult.ba = <<9, 10>>)

\* a substring pair whose word overlap alone would have given another score
C7_Witness ==
    /\ Scored /\ OneInOther
    /\ Cardinality(WordsOf(sQuestion)) >= 2
    /\ ~REq(wordSimilarity(normalize(sQuestion), normalize(sFaqQuestion)), <<9, 10>>)
    /\ sResult.ab = <<9, 10>>

\* C8 as stated: the score does not depend on the order of the two arguments
C8_Symmetric == Scored => REq(sResult.ab, sResult.ba)

\* C8 amended: the score is symmetric under the exact-match and the substring
\* rules; under the word-overlap rule the two orders have the same denominator
\* (the larger word count), and the numerator counts the covered words of the
\* first argument, so the two scores are equal exactly when the two strings
\* have as many covered words
C8_SymmetricUpToCoveredWords ==
    Scored =>
        /\ (SameCore \/ OneInOther) => REq(sResult.ab, sResult.ba)
        /\ ~(SameCore \/ OneInOther) =>
              /\ sResult.ab[2] = sResult.ba[2]
              /\ sResult.ab[2] = Max(Cardinality(WordsOf(sQuestion)),
                                     Cardinality(WordsOf(sFaqQuestion)))
              /\ REq(sResult.ab, sResult.ba) <=> (sResult.ab[1] = sResult.ba[1])

\* both cases of the amended claim: a substring pair, scored the same both ways,
\* or a word-overlap pair whose two scores differ
C8_Witness ==
    /\ Scored
    /\ \/ OneInOther /\ REq(sResult.ab, sResult.ba) /\ Len(Core(sQuestion)) >= 2
       \/ ~(SameCore \/ OneInOther) /\ ~REq(sResult.ab, sResult.ba)

\* C9: every score is in [0, 1], and so is the confidence of an instant answer
C9_ScoreInUnitInterval ==
    Scored =>
        /\ RLe(<<0, 1>>, sResult.ab) /\ RLe(sResult.ab, <<1, 1>>) /\ sResult.ab[2] > 0
        /\ RLe(<<0, 1>>, sResult.ba) /\ RLe(sResult.ba, <<1, 1>>) /\ sResult.ba[2] > 0
        /\ sResult.instant # Null =>
              /\ RLe(<<0, 1>>, sResult.instant.confidence)
              /\ RLe(sResult.instant.confidence, <<1, 1>>)

\* a word-overlap score strictly inside the interval, returned as a confidence
C9_Witness ==
    /\ Scored /\ ~(SameCore \/ OneInOther)
    /\ RLt(<<0, 1>>, sResult.ab) /\ RLt(sResult.ab, <<1, 1>>)
    /\ REq(sResult.ba, <<1, 1>>)
    /\ sResult.instant # Null /\ sResult.instant.confidence = sResult.ab

(***************************************************************************)
(* Properties of the matcher (checked under SpecMatch)                     *)
(***************************************************************************)
Matched == mResult # NotYet

\* the scores of the canonical questions findBestMatch scans, in scan order
ScannedScores ==
    LET pairs == scanOrder(allCategories(mFaq))
    IN  [i \in 1..Len(pairs) |-> calculateSimilarity(mQuestion, pairs[i].faqQuestion)]

\* the indices of the highest scores of a sequence of scores
BestOf(scores) ==
    {i \in 1..Len(scores) : \A j \in 1..Len(scores) : RLe(scores[j], scores[i])}

Candidacy == <<2, 5>>

\* C3: findBestMatch returns none or a match with a score of at least 0.4
C3_NoMatchBelowThreshold ==
    Matched => (mResult.match = Null \/ RGe(mResult.match.score, Candidacy))

\* questions with a positive score below 0.4 were scanned and none was returned
C3_Witness ==
    /\ Matched /\ mResult.match = Null
    /\ \E i \in 1..Len(ScannedScores) : RGt(ScannedScores[i], <<0, 1>>)

\* C4: the score returned is the highest score of the scanned questions when that
\* is at least 0.4, and nothing is returned when it is below
C4_ReturnsMaximum ==
    Matched =>
        LET scores == ScannedScores
            best == BestOf(scores)
        IN  IF \E i \in best : RGe(scores[i], Candidacy)
            THEN mResult.match # Null
                 /\ \A i \in best : REq(mResult.match.score, scores[i])
            ELSE mResult.match = Null

\* the highest score came after a lower score that passed the threshold, and was
\* followed by another one
C4_Witness ==
    /\ Matched /\ mResult.match # Null
    /\ LET scores == ScannedScores
           best == BestOf(scores)
       IN  \E i, j, k \in 1..Len(scores) :
              /\ i < j /\ j < k /\ j \in best
              /\ RGe(scores[i], Candidacy) /\ i \notin best
              /\ RGe(scores[k], Candidacy) /\ k \notin best

\* C5: among the questions with the highest score the first one scanned is returned
C5_FirstOfTiesWins ==
    (Matched /\ mResult.match # Null) =>
        LET pairs == scanOrder(allCategories(mFaq))
            best == BestOf(ScannedScores)
            first == CHOOSE i \in best : \A j \in best : i <= j
        IN  /\ mResult.match.matchedQuestion = pairs[first].faqQuestion
            /\ mResult.match.category = pairs[first].categoryKey
            /\ mResult.match.answer = pairs[first].category.answer

\* two different canonical questions of two categories tie at 1/2, and so do two
\* questions of one category
C5_Witness ==
    /\ Matched /\ mResult.match # Null /\ REq(mResult.match.score, <<1, 2>>)
    /\ LET pairs == scanOrder(allCategories(mFaq))
           best == BestOf(ScannedScores)
       IN  \E i, j, k \in best :
              /\ i < j /\ j < k
              /\ pairs[i].categoryKey = pairs[j].categoryKey
              /\ pairs[i].faqQuestion # pairs[j].faqQuestion
              /\ pairs[j].categoryKey # pairs[k].categoryKey

(***************************************************************************)
(* Properties of the similarity search (checked under SpecSearch)          *)
(***************************************************************************)
Searched == vResult # NotYet

\* C10: in every mode and for every index size the results are in descending
\* (non-increasing) order of score
C10_ResultsDescending ==
    Searched =>
        \A i, j \in 1..Len(vResult.topK) :
            i < j => RGe(vResult.topK[i].score, vResult.topK[j].score)

\* the performance mode the two flags select, and the top-K size of each mode
ModeOf(fast, ultra) == IF ultra THEN "UltraFast" ELSE IF fast THEN "Fast" ELSE "Normal"
SpecK == [Normal |-> 5, Fast |-> 3, UltraFast |-> 2]

\* the score of every record of the index against the query
IndexScores == [i \in 1..Len(vIndex) |-> cosineSimilarity(vQuery, vIndex[i].vector)]

\* C11: in every mode the search returns exactly min(k, N) results for an index
\* of N records, k being the mode's top-K size: nothing for an empty index,
\* every record when N < k, and the only record of a one-record index
C11_ExactlyMinKN ==
    Searched =>
        /\ Len(vResult.topK) = Min(SpecK[ModeOf(vFast, vUltra)], Len(vIndex))
        /\ Len(vIndex) = 1 => vResult.topK[1].text = 1

\* the exhaustive search has cut an index of more than five records to five
C11_Witness ==
    /\ Searched /\ ~vFast /\ ~vUltra
    /\ Len(vIndex) = 6 /\ Len(vResult.topK) = 5

\* one score is strictly greater than every other
UniqueMax(scores) ==
    \E i \in DOMAIN scores : \A j \in DOMAIN scores \ {i} : RGt(scores[i], scores[j])

\* C12: for every index of at least one record with a unique maximum score, the
\* bounded search returns as its first result the first result of the
\* exhaustive search
C12_BoundedTop1IsExhaustiveTop1 ==
    (Searched /\ (vFast \/ vUltra) /\ Len(vIndex) >= 1 /\ UniqueMax(IndexScores)) =>
        vResult.topK[1] = exhaustiveSearch(vIndex, vQuery)[1]

\* C13: records of equal score are returned in index order, a record is never
\* returned while an earlier record of the same score is left out, and an index
\* of at least k records yields exactly k results
C13_TiesInIndexOrder ==
    Searched =>
        LET res == vResult.topK
            scores == IndexScores
        IN  /\ \A i, j \in 1..Len(res) :
                  (i < j /\ REq(res[i].score, res[j].score)) => res[i].text < res[j].text
            /\ \A i \in 1..Len(res) : \A e \in 1..(res[i].text - 1) :
                  REq(scores[e], res[i].score) => \E m \in 1..Len(res) : res[m].text = e
            /\ Len(vIndex) >= SpecK[ModeOf(vFast, vUltra)] =>
                  Len(res) = SpecK[ModeOf(vFast, vUltra)]

\* a tie straddles the k-th position of a bounded search that has replaced a
\* record of its buffer: the last result has the score of a later record that
\* was left out, and the first result is not the first record
C13_Witness ==
    /\ Searched /\ vFast /\ ~vUltra
    /\ LET res == vResult.topK
       IN  /\ Len(res) = 3
           /\ res[1].text > 1
           /\ REq(res[2].score, res[3].score)
           /\ \E e \in (res[3].text + 1)..Len(vIndex) : REq(IndexScores[e], res[3].score)

(***************************************************************************)
(* Properties of the performance mode (checked under Spec)                 *)
(***************************************************************************)
\* the search strategy of each mode
SpecStrategy == [Normal |-> "exhaustive", Fast |-> "bounded", UltraFast |-> "bounded"]

\* every parameter the code derives from the two flags
ParametersOf(fast, ultra) ==
    [k |-> topKSize(fast, ultra), strategy |-> searchStrategy(fast, ultra),
     buffer |-> targetCount(ultra), chunkSize |-> chunkSize(fast, ultra),
     chunkOverlap |-> chunkOverlap(fast, ultra),
     modelTimeout |-> modelTimeout(fast, ultra),
     embeddingsTimeout |-> embeddingsTimeout(fast, ultra),
     prompt |-> promptTemplate(fast, ultra)]

\* the first k results of the mode's strategy, the bounded search run with a
\* buffer of k records
ResultsOfMode(mode, idx, qVec) ==
    slice0(IF SpecStrategy[mode] = "bounded"
           THEN boundedFrom(idx, qVec, SpecK[mode], 1, <<>>, <<0, 1>>)
           ELSE exhaustiveSearch(idx, qVec),
           SpecK[mode])

\* C14: the two flags do not change while the process runs; the top-K size and
\* the strategy are those of the mode (Normal 5 exhaustive, Fast 3 bounded,
\* UltraFast 2 bounded) and every search of the session returns what they
\* give; with both flags set every parameter has its UltraFast value
C14_ModeFixesParameters ==
    [][LET mode == ModeOf(FAST_MODE', ULTRA_FAST')
           p == ParametersOf(FAST_MODE', ULTRA_FAST')
       IN  /\ restarts' = restarts =>
                 FAST_MODE' = FAST_MODE /\ ULTRA_FAST' = ULTRA_FAST
           /\ p.k = SpecK[mode] /\ p.strategy = SpecStrategy[mode]
           /\ ULTRA_FAST' => p = ParametersOf(FALSE, TRUE)
           /\ (pc = "VectorSearch" /\ pc' = "ContextAssembled") =>
                 topK' = ResultsOfMode(mode, index, queryVec)]_vars

\* a process started again with both flags set has searched its index of four
\* chunks and kept two
C14_Witness ==
    /\ restarts = 1 /\ FAST_MODE /\ ULTRA_FAST
    /\ pc = "ContextAssembled" /\ Len(index) = 4 /\ Len(topK) = 2

(***************************************************************************)
(* Properties of the embedding cache (checked under Spec)                  *)
(***************************************************************************)
\* every entry of the first list of entries is, key and value, in the second
EntriesKept(before, after) ==
    \A i \in 1..Len(before) :
        /\ cacheHas(after, before[i].key)
        /\ cacheGet(after, before[i].key) = before[i].value

\* a step of the start-up code that has run loadPersistentCache
StartsUp == phase = "Start" /\ phase' # "Start"

C16_CacheAppendOnly ==
    [][restarts' = restarts => EntriesKept(embeddingCache, embeddingCache')]_vars

\* a question has failed in the generation step after its vector was put in
\* the cache by an insert whose write failed, next to entries loaded from the
\* file and the vectors of the corpus
C16_Witness ==
    /\ pc = "Done" /\ outcome = "error"
    /\ lastWrite \in {"refused", "partial"}
    /\ cachedCount >= 1 /\ Len(embeddingCache) >= 3
    /\ cacheHas(embeddingCache, queryCacheKey(question))

\* C17: no step of the program removes an entry from the cache file
C17_PersistedEntriesStay ==
    [][cacheFile.kind = "json" =>
          /\ cacheFile'.kind = "json"
          /\ EntriesKept(cacheFile.data, cacheFile'.data)]_vars

\* C18: after an insert whose write succeeded, the file holds exactly the
\* in-memory table: the entries loaded and every entry inserted in the run
C18_FileIsSnapshot ==
    lastWrite = "ok" => cacheFile = [kind |-> "json", data |-> embeddingCache]

\* the second question of a run that loaded an entry has been inserted and
\* flushed: the file holds the loaded entry, the corpus and both questions
C18_Witness ==
    /\ lastWrite = "ok" /\ cachedCount >= 1 /\ pc = "VectorSearch"
    /\ Len(embeddingCache) >= cachedCount + 2
    /\ \E q \in Questions \ {question} :
          /\ cacheHas(embeddingCache, queryCacheKey(q))
          /\ cacheHas(cacheFile.data, queryCacheKey(q))
    /\ cacheHas(cacheFile.data, queryCacheKey(question))

\* C19: a question whose key is in the cache takes the cached vector and makes
\* no provider call, and the provider is called on a miss; a start-up that
\* finds the key of the corpus builds the index from the cached vectors
\* without waiting for the provider, and waits for it on a miss
C19_HitSkipsProvider ==
    [][/\ (pc = "RetrievalNeeded" /\ pc' # "RetrievalNeeded") =>
             IF cacheHas(embeddingCache, queryCacheKey(question))
             THEN /\ pc' = "VectorSearch" /\ calls'.embed = 0
                  /\ queryVec' = cacheGet(embeddingCache, queryCacheKey(question))
                  /\ embeddingCache' = embeddingCache
             ELSE pc' = "EmbedQuery" /\ calls'.embed = 1
       /\ (StartsUp /\ phase' # "Exited") =>
             IF cacheHas(embeddingCache', docCacheKey(docTexts'))
             THEN /\ phase' = "Ready"
                  /\ index' = buildIndex(cacheGet(embeddingCache', docCacheKey(docTexts')),
                                          docTexts')
             ELSE phase' = "EmbedDocs"
       /\ pc' = "EmbedQuery" => pc \in {"RetrievalNeeded", "EmbedQuery"}
       /\ phase' = "EmbedDocs" => phase \in {"Start", "EmbedDocs"}]_vars

\* a run that found the vectors of its corpus in the file has also found the
\* vector of its question there: it differs from what the provider would
\* return, and no provider call was made
C19_Witness ==
    /\ restarts = 1 /\ phase = "Ready" /\ lastWrite = "none" /\ Len(index) > 0
    /\ pc = "VectorSearch" /\ calls.embed = 0
    /\ queryVec = QueryY /\ embedQuery(question) = QueryX

\* C20: a start-up over a cache file that is missing, cannot be read or cannot
\* be parsed reports no error of the cache, counts 0 loaded entries, leaves the
\* in-memory table empty and goes on to the corpus: it ends up waiting for the
\* embeddings of the corpus, unless README.md cannot be read
C20_BadFileIsEmptyCache ==
    [][(StartsUp /\ (cacheFile.kind # "json" \/ loadOutcome' = "failed")) =>
          /\ startupError' # "cache"
          /\ cachedCount' = 0
          /\ embeddingCache' = <<>>
          /\ \/ phase' = "EmbedDocs" /\ docTexts' = splitDocuments(FAST_MODE, ULTRA_FAST)
             \/ phase' = "Exited" /\ startupError' = "readme"]_vars

\* a start-up that could not read a cache file holding entries is waiting for
\* the embeddings of the corpus
C20_Witness ==
    /\ phase = "EmbedDocs" /\ loadOutcome = "failed" /\ cacheFile.kind = "json"
    /\ cachedCount = 0 /\ embeddingCache = <<>>

(***************************************************************************)
(* Further properties of the matcher (checked under SpecMatch)             *)
(***************************************************************************)
\* the canonical questions of the configured categories that have a question
\* list, nested under the key faq or at the top level
ConfiguredQuestions ==
    LET cats == mFaq.nested \o mFaq.top
    IN  UNION {{cats[i].value.questions[j] : j \in 1..Len(cats[i].value.questions)} :
                 i \in {k \in 1..Len(cats) : cats[k].value.hasQuestions}}

\* C32: findBestMatch scores every canonical question of every configured
\* category, nested or at the top level, also when a nested and a top-level
\* category have the same name: a configured question that scores at least
\* 0.4 is matched, or another one that scores no less
C32_EveryCategoryScored ==
    Matched =>
        \A q \in ConfiguredQuestions :
            LET score == calculateSimilarity(mQuestion, q)
            IN  RGe(score, Candidacy) =>
                    mResult.match # Null /\ RGe(mResult.match.score, score)

(***************************************************************************)
(* Further properties of calculateSimilarity (checked under SpecScore)     *)
(***************************************************************************)
\* the tokens of the question, each with its position, that occur in a token
\* of the canonical question or have one occurring in them
CoveredTokens ==
    {w \in WordsOf(sQuestion) :
        \E v \in WordsOf(sFaqQuestion) : OccursIn(w[2], v[2]) \/ OccursIn(v[2], w[2])}

\* C31: when the normalized strings are neither equal nor one inside the other,
\* calculateSimilarity(question, canonical) is the number of tokens of the
\* question, counted with repetition, that are inside or contain some token of
\* the canonical question, divided by the larger of the two token counts
C31_CoveredTokensOverMax ==
    (Scored /\ ~(SameCore \/ OneInOther)) =>
        sResult.ab = <<Cardinality(CoveredTokens),
                       Max(Cardinality(WordsOf(sQuestion)),
                           Cardinality(WordsOf(sFaqQuestion)))>>

\* a question with the same token twice has been scored, both of them counted
C31_Witness ==
    /\ Scored /\ ~(SameCore \/ OneInOther)
    /\ \E w, x \in CoveredTokens : w[1] # x[1] /\ w[2] = x[2]
    /\ sResult.ab = <<2, 2>>

(***************************************************************************)
(* Properties of one run of the process (checked under SpecRun)            *)
(***************************************************************************)
\* how far askQuestion has come
StepRank ==
    [p \in {"Start", "Answered", "RetrievalNeeded", "EmbedQuery", "VectorSearch",
            "ContextAssembled", "Done"} |->
        CASE p = "Start" -> 0
          [] p \in {"Answered", "RetrievalNeeded"} -> 1
          [] p = "EmbedQuery" -> 2
          [] p = "VectorSearch" -> 3
          [] p = "ContextAssembled" -> 4
          [] OTHER -> 5]

\* a step inside one invocation of askQuestion
StepsOn == pc # "Idle" /\ pc' # pc /\ pc' # "Start"

\* C21: every invocation of askQuestion reaches its end, whichever way it
\* takes (FAQ answer, retrieval answer, failed embedding, failed or timed-out
\* generation), given that every call of a provider returns or fails; and no
\* step of an invocation goes back to an earlier one
C21_AskQuestionTerminates ==
    /\ (pc = "Start") ~> (pc = "Done")
    /\ [][StepsOn => StepRank[pc'] > StepRank[pc]]_vars

\* an invocation has ended after its generation call failed
C21_Witness ==
    pc = "Done" /\ outcome = "error" /\ calls.generate = 1 /\ topK # <<>>

\* C22: a failure of a provider fails the question at hand and nothing else:
\* the error is caught inside askQuestion, which returns to its caller, and the
\* session goes on: the interactive loop issues its prompt again, and the test
\* run calls askQuestion for every test question in order, each exactly once
C22_FailureFailsOnlyTheQuestion ==
    /\ [][(outcome' = "error" /\ outcome # "error") =>
              /\ pc' = "Done" /\ phase' = "Ready" /\ startupError' = "none"
              /\ caller' = "awaiting" /\ testIdx' = testIdx /\ asked' = asked]_vars
    /\ [][(TEST_MODE /\ pc' = "Start" /\ pc # "Start") =>
              /\ testIdx = asked /\ asked' = asked + 1
              /\ question' = testQuestions[asked']]_vars
    /\ [][(TEST_MODE /\ testIdx' # testIdx) =>
              pc = "Done" /\ testIdx' = testIdx + 1]_vars
    /\ (pc = "Done" /\ caller = "awaiting") ~> (caller \in {"prompting", "looping"})
    /\ (TEST_MODE /\ phase = "Ready") ~>
          (caller = "finished" /\ testIdx = Len(testQuestions)
             /\ asked = Len(testQuestions))

\* the test loop has gone on to its second question after the first one failed
C22_Witness ==
    /\ TEST_MODE /\ caller = "looping" /\ testIdx = 1 /\ outcome = "error"
    /\ phase = "Ready" /\ testIdx < Len(testQuestions)

\* C23: no call of a provider is made twice for one question: askQuestion calls
\* the embedding provider at most once and the generation provider at most
\* once, and once a call has failed it calls no provider again for that question
C23_NoProviderRetry ==
    [][/\ calls'.embed <= 1 /\ calls'.generate <= 1
       /\ (outcome = "error" /\ pc' # "Start") => calls' = calls]_vars

\* a question has ended after its one embedding call failed, without a
\* generation call
C23_Witness ==
    /\ pc = "Done" /\ outcome = "error" /\ calls.embed = 1 /\ calls.generate = 0
    /\ ~cacheHas(embeddingCache, queryCacheKey(question))

\* C24: when README.md cannot be read at start-up the error goes to the top
\* level: there is never a corpus, an index, a call of the embedding provider
\* or a question (not even one answered by the FAQ), and the process ends in
\* the top-level catch, which prints its diagnostic
C24_NoReadmeNoSession ==
    /\ [](readmeFile = "missing" =>
            /\ docTexts = <<>> /\ index = <<>> /\ phase \in {"Start", "Exited"}
            /\ lastWrite = "none" /\ calls = NoCalls
            /\ caller = "none" /\ pc = "Idle" /\ asked = 0 /\ outcome = "none"
            /\ (phase = "Exited" => startupError = "readme"))
    /\ (readmeFile = "missing") ~> (phase = "Exited" /\ startupError = "readme")

\* a run has ended in the top-level catch after it had loaded entries from
\* the cache file
C24_Witness ==
    /\ readmeFile = "missing" /\ phase = "Exited" /\ startupError = "readme"
    /\ loadOutcome = "loaded" /\ cachedCount > 0

\* what the FAQSystem holds after docs/faq-commands.json could not be read or
\* parsed
UnloadedFaqs == {loadFAQ(f) : f \in {g \in FaqFiles : g.kind # "json"}}

\* the matcher finds nothing in such a configuration, whatever the question
NothingMatches ==
    \A cfg \in UnloadedFaqs : \A qText \in AskedQuestions :
        findBestMatch(cfg, qText) = Null /\ getInstantAnswer(cfg, qText) = Null

\* C25: when the FAQ configuration file is missing or cannot be parsed, the
\* FAQSystem is constructed all the same, findBestMatch and getInstantAnswer
\* return nothing for every question, and every question goes to retrieval:
\* none is answered from the FAQ
C25_NoFaqFileNoFaqAnswer ==
    /\ NothingMatches
    /\ faq \in UnloadedFaqs =>
          /\ pc \notin {"Idle", "Start"} => faqResponse = Null
          /\ pc # "Answered" /\ outcome # "faq"

\* without the FAQ file, a question the FAQ of the session would have answered
\* has been answered by retrieval
C25_Witness ==
    /\ faq \in UnloadedFaqs /\ question = QuestionHigh
    /\ ScoresAboveGate(SessionFaq, question)
    /\ pc = "Done" /\ outcome = "rag"

\* an invocation of askQuestion has not returned yet
InFlight == pc \notin {"Idle", "Done"}

\* C27: questions are processed strictly one at a time, in the interactive loop
\* and in the test loop: askQuestion is called only when no invocation is in
\* flight, by a caller that is at its prompt or at the head of its loop, and
\* while an invocation is in flight its caller waits for it
C27_OneQuestionAtATime ==
    [][/\ asked' # asked =>
             /\ ~InFlight /\ caller \in {"prompting", "looping"}
             /\ asked' = asked + 1 /\ pc' = "Start" /\ caller' = "awaiting"
       /\ InFlight =>
             caller = "awaiting" /\ question' = question /\ asked' = asked]_vars

\* the second question of a run is in flight
C27_Witness ==
    asked = 2 /\ InFlight /\ caller = "awaiting" /\ pc = "EmbedQuery"

\* the line says exit or quit, in whatever letter case and with whatever white
\* space around the word
SaysExit(line) == Core(line) \in {<<"e", "x", "i", "t">>, <<"q", "u", "i", "t">>}

\* the callback of rl.question gets a line
LineArrives == typed' # typed /\ typed' # NotYet

\* C29: in the interactive loop a line that says exit or quit, in any letter
\* case and with white space around it, ends the session: no question is
\* started for it, and after it no line is taken and no question is processed;
\* every other line is handled (as a question, as help, as an empty line) and
\* leads to a new prompt
C29_ExitEndsSession ==
    /\ [][/\ LineArrives => ~TEST_MODE /\ caller = "prompting"
          /\ (LineArrives /\ SaysExit(typed'.text)) =>
                /\ caller' = "closed" /\ phase' = "Exited"
                /\ asked' = asked /\ askVars' = askVars
          /\ (LineArrives /\ ~SaysExit(typed'.text)) =>
                /\ caller' \in {"prompting", "awaiting"}
                /\ caller' = "awaiting" =>
                      /\ asked' = asked + 1 /\ pc' = "Start"
                      /\ Core(question') = Core(typed'.text) /\ ~SaysExit(question')
                /\ caller' = "prompting" => asked' = asked /\ askVars' = askVars
          /\ caller = "closed" =>
                /\ caller' = "closed" /\ typed' = typed
                /\ asked' = asked /\ askVars' = askVars]_vars
    /\ (~TEST_MODE /\ caller = "awaiting") ~> (caller = "prompting")

\* a session has been ended, after a question, by quit in mixed case with
\* white space around it
C29_Witness ==
    /\ caller = "closed" /\ phase = "Exited" /\ asked = 1
    /\ typed = [text |-> <<" ", "Q", "u", "I", "T", " ">>]

\* the steps of askQuestion, each with the steps that may follow it
StepOrder ==
    {<<"Idle", "Start">>, <<"Done", "Start">>,
     <<"Start", "Answered">>, <<"Start", "RetrievalNeeded">>,
     <<"Answered", "Done">>,
     <<"RetrievalNeeded", "EmbedQuery">>, <<"RetrievalNeeded", "VectorSearch">>,
     <<"EmbedQuery", "VectorSearch">>, <<"EmbedQuery", "Done">>,
     <<"VectorSearch", "ContextAssembled">>,
     <<"ContextAssembled", "Done">>}

\* C30: within one question the steps come in the order FAQ check, query
\* embedding (from the cache or from the provider), vector search, context,
\* generation call: the embedding is looked up only after the FAQ check has
\* returned an answer that is not accepted, the search runs only with the
\* query vector at hand, and the generation provider is called only in the
\* step that has the results of the search for the context
C30_StepsInOrder ==
    [][/\ pc' # pc => <<pc, pc'>> \in StepOrder
       /\ (pc = "RetrievalNeeded" /\ pc' # pc) =>
             /\ faqResponse = getInstantAnswer(faq, question)
             /\ ~acceptsFaq(faqResponse)
             /\ calls = NoCalls /\ queryVec = <<>> /\ topK = <<>>
       /\ calls'.embed > calls.embed => pc = "RetrievalNeeded" /\ pc' = "EmbedQuery"
       /\ calls'.search > calls.search =>
             /\ pc = "VectorSearch" /\ calls.search = 0 /\ calls.generate = 0
             /\ queryVec \in QueryVectors /\ queryVec' = queryVec
             /\ queryVec \in {embedQuery(question)} \cup
                     {embeddingCache[i].value :
                        i \in {j \in 1..Len(embeddingCache) :
                                  embeddingCache[j].key[1] = "query_"}}
       /\ calls'.generate > calls.generate =>
             /\ pc' = "ContextAssembled" /\ calls'.search = 1
             /\ topK' = similaritySearch(FAST_MODE, ULTRA_FAST, index, queryVec)]_vars

\* a question has passed the FAQ check, got its vector from the provider and
\* been searched, and the model has been called with its context
C30_Witness ==
    /\ pc = "ContextAssembled" /\ calls = [embed |-> 1, search |-> 1, generate |-> 1]
    /\ faqResponse # Null /\ ~acceptsFaq(faqResponse)
    /\ queryVec = embedQuery(question) /\ Len(topK) > 0

(***************************************************************************)
(* Properties of the start-up over the cache file (checked under Spec)     *)
(***************************************************************************)
\* the lists of chunk texts whose vectors a cache holds
CachedLists(map) ==
    {map[i].key[2] : i \in {j \in 1..Len(map) : map[j].key[1] = "embeddings_"}}

\* C28: a cached batch of document vectors is used only for the very list of
\* chunk texts it was computed for: a start-up whose list differs from every
\* list with cached vectors uses no cached batch and waits for the embedding
\* provider, whose vectors for this list are then added to the cache and make
\* the index, every entry the cache had staying as it was
C28_BatchReusedOnlyForSameCorpus ==
    [][/\ (StartsUp /\ phase' # "Exited" /\ docTexts' \notin CachedLists(embeddingCache')) =>
             phase' = "EmbedDocs" /\ index' = <<>>
       /\ (phase = "EmbedDocs" /\ phase' = "Ready") =>
             /\ docTexts \notin CachedLists(embeddingCache)
             /\ CachedLists(embeddingCache') = CachedLists(embeddingCache) \cup {docTexts}
             /\ Len(embeddingCache') = Len(embeddingCache) + 1
             /\ EntriesKept(embeddingCache, embeddingCache')
             /\ index' = buildIndex(embedDocuments(docTexts), docTexts)
       /\ (phase' = "Ready" /\ phase # "Ready") =>
             /\ docTexts' \in CachedLists(embeddingCache')
             /\ Len(index') = Len(docTexts')
             /\ \A i \in 1..Len(index') : index'[i].text = docTexts'[i]]_vars

\* a run in another mode than the one before it has added the batch of its own
\* corpus to the batch it loaded from the file
C28_Witness ==
    /\ restarts = 1 /\ phase = "Ready" /\ loadOutcome = "loaded"
    /\ lastWrite # "none" /\ Cardinality(CachedLists(embeddingCache)) = 2
    /\ docTexts \in CachedLists(embeddingCache)

(***************************************************************************)
(* Properties of cosineSimilarity (checked under SpecCosine)               *)
(***************************************************************************)
\* v is zero in each of its first n components
ZeroOver(v, n) == \A i \in 1..n : v[i] = 0

\* the components cosineSimilarity compares: those both vectors have
Compared == Min(Len(cA), Len(cB))

\* C26: cosineSimilarity returns exactly 0, and neither NaN nor an error,
\* whenever one of its arguments has norm zero over the components compared;
\* this covers a vector of zeros and an empty vector
C26_ZeroNormScoresZero ==
    (cResult # NotYet /\ (ZeroOver(cA, Compared) \/ ZeroOver(cB, Compared))) =>
        cResult.score = <<0, 1>>

\* the score of a vector that is not zero against an empty vector, and against
\* a shorter vector of zeros, has been computed
C26_Witness ==
    /\ cResult # NotYet
    /\ ~ZeroOver(cA, Len(cA)) /\ Len(cB) < Len(cA) /\ ZeroOver(cB, Len(cB))
    /\ cResult.score = <<0, 1>>

(***************************************************************************)
(* Properties of a failed cache write (checked under Spec)                 *)
(***************************************************************************)
\* the insert of a question's vector whose write to the cache file failed
FailedInsert ==
    /\ pc = "EmbedQuery" /\ pc' # "EmbedQuery"
    /\ embeddingCache' # embeddingCache
    /\ lastWrite' \in {"refused", "partial"}

\* C33: when the write of the cache file fails during an insert, the question
\* goes on to the vector search with the vector just computed and no error,
\* the entry stays in memory and the cache file keeps its previous content
C33_FailedWriteAbsorbed ==
    [][FailedInsert =>
          /\ pc' = "VectorSearch" /\ queryVec' = embedQuery(question)
          /\ outcome' = outcome /\ phase' = phase
          /\ cacheHas(embeddingCache', queryCacheKey(question))
          /\ cacheGet(embeddingCache', queryCacheKey(question)) = queryVec'
          /\ cacheFile' = cacheFile]_vars

(***************************************************************************)
(* Properties of provider failures in a run (checked under SpecRun)        *)
(***************************************************************************)
\* C34: a missing README.md is the only error that ends the process: the run
\* never ends in the top-level catch because the embedding or the generation
\* provider failed, the embedding of the corpus at start-up included
C34_OnlyMissingReadmeEndsProcess ==
    startupError # "none" => (startupError = "readme" /\ readmeFile = "missing")

(***************************************************************************)
(* Properties of the vector index in a run (checked under SpecRun)         *)
(***************************************************************************)
\* C35: once built at start-up the index is read-only: no step of a question,
\* in interactive or test mode, ending in an answer or in an error, changes a
\* record of the index, their number or their order
C35_IndexReadOnly ==
    [][phase = "Ready" => index' = index]_vars

\* a question asked by the test run has been searched over an index whose
\* records do not come in the order of their scores, and has then failed
C35_Witness ==
    /\ TEST_MODE /\ phase = "Ready" /\ pc = "Done" /\ outcome = "error"
    /\ calls.search = 1 /\ Len(index) >= 2 /\ Len(topK) >= 2
    /\ topK[1].text # index[1].text

(***************************************************************************)
(* Properties of a failed query embedding (checked under SpecRun)          *)
(***************************************************************************)
\* the step in which embeddings.embedQuery fails for the question
QueryEmbeddingFails == pc = "EmbedQuery" /\ outcome' = "error"

\* C36: when the embedding provider fails for a question's query embedding,
\* the cache is unchanged by the question: nothing is inserted under the
\* question's key, the cache file is not rewritten, and neither the vector
\* search nor the generation call is made for the question
C36_FailedEmbeddingLeavesCache ==
    /\ [][QueryEmbeddingFails =>
            /\ embeddingCache' = embeddingCache
            /\ ~cacheHas(embeddingCache', queryCacheKey(question))
            /\ cacheFile' = cacheFile /\ lastWrite' = lastWrite
            /\ pc' = "Done" /\ calls' = calls]_vars
    /\ []((pc = "Done" /\ outcome = "error" /\ queryVec = <<>>) =>
            /\ calls.search = 0 /\ calls.generate = 0
            /\ ~cacheHas(embeddingCache, queryCacheKey(question)))

\* the second question of a run has failed in the embedding after the first
\* one was inserted and written to the file
C36_Witness ==
    /\ pc = "Done" /\ outcome = "error" /\ calls.embed = 1 /\ calls.search = 0
    /\ asked + testIdx = 2 /\ lastWrite = "ok"
    /\ \E q \in AskedQuestions \ {question} :
          cacheHas(cacheFile.data, queryCacheKey(q))
    /\ ~cacheHas(embeddingCache, queryCacheKey(question))

(***************************************************************************)
(* Properties of the cache keys (checked under SpecKey)                    *)
(***************************************************************************)
\* C37: the key of a corpus and the key of a question are never equal,
\* whatever the two digests: an entry stored under a question's key is not
\* found under the key of the corpus, and an entry stored under the key of a
\* corpus is not found under a question's key
C37_KeyClassesDisjoint ==
    kResult # NotYet =>
        /\ kResult.docKey # kResult.queryKey
        /\ ~kResult.docHitsQuery /\ ~kResult.queryHitsDoc

\* the keys of a corpus and of a question that have the same digest
C37_Witness ==
    /\ kResult # NotYet /\ kDocHash = kQueryHash /\ kDocHash[1] = "e"
    /\ kResult.docKey # kResult.queryKey
    /\ SubSeq(kResult.docKey, Len(docKeyPrefix) + 1, Len(kResult.docKey))
         = SubSeq(kResult.queryKey, Len(queryKeyPrefix) + 1, Len(kResult.queryKey))

(***************************************************************************)
(* Further properties of the similarity search (checked under SpecSearch)  *)
(***************************************************************************)
\* the place of record e in a stable sort of the scores in descending order:
\* one more than the records that score higher or score the same and come
\* earlier
RankIn(scores, e) ==
    Cardinality({f \in DOMAIN scores :
                    \/ RGt(scores[f], scores[e])
                    \/ REq(scores[f], scores[e]) /\ f < e}) + 1

\* res is the first k records of the index in that order, with their scores
IsStableTop(res, k) ==
    LET scores == SubSeq(IndexScores, 1, Len(vIndex))
    IN  /\ Len(res) = k
        /\ \A m \in 1..k :
              LET e == res[m].text
              IN  /\ e \in 1..Len(vIndex) /\ RankIn(scores, e) = m
                  /\ res[m] = [score |-> scores[e], text |-> vIndex[e].text,
                               metadata |-> vIndex[e].metadata]

\* C38: for every index of at least k records, the bounded search with a
\* buffer of k returns the first k records of the stable sort by descending
\* score, and the exhaustive search returns the first records of the same
\* sort: the same records in the same order, also when scores tie at the k-th
\* position
C38_BoundedIsExhaustive ==
    Searched =>
        IF vFast \/ vUltra
        THEN Len(vIndex) >= targetCount(vUltra) =>
                 IsStableTop(vResult.topK, targetCount(vUltra))
        ELSE IsStableTop(vResult.topK, Min(Len(vIndex), topKSize(vFast, vUltra)))

\* a bounded search with a buffer of three over more than three records: the
\* third result ties with a later record that was left out and with the second
\* result, a record after the third has replaced one of the buffer, and the
\* scores of the index are not in descending order
C38_Witness ==
    /\ Searched /\ vFast /\ ~vUltra /\ Len(vIndex) > 3
    /\ IsStableTop(vResult.topK, 3)
    /\ LET res == vResult.topK
       IN  /\ REq(res[2].score, res[3].score)
           /\ \E e \in (res[3].text + 1)..Len(vIndex) : REq(IndexScores[e], res[3].score)
           /\ res[1].text > 3
           /\ RLt(IndexScores[1], <<0, 1>>)

(***************************************************************************)
(* Properties of DEBUG_MODE (checked under SpecDebug)                      *)
(***************************************************************************)
\* C39: DEBUG_MODE only adds output: for every index, query and set of scores,
\* negative ones included, a question ends with DEBUG_MODE on as it ends with
\* DEBUG_MODE off: the same results, the same call of the generation provider
\* and the same outcome
C39_DebugOnlyAddsOutput ==
    (dResult # NotYet /\ DEBUG_MODE) =>
        dResult = askFromSearch(FALSE, vFast, vUltra, vIndex, vQuery, dProvider)

====
